---- MODULE Spec2Model ----
(***************************************************************************)
(* JATS: the trading decision and position state machine.                  *)
(*                                                                         *)
(* Two traders are modelled, each with the exchange it talks to:           *)
(*   - UpbitTrader (src/upbit/trader.py): the multi-interval loop run(),   *)
(*     buy(), sell(), check_signal(), check_position(),                    *)
(*     cancel_abnormal_orders(), set_top_volume_10min(), dis_portfolio();  *)
(*     specification Spec.                                                 *)
(*   - KisTrader (src/kis/trader.py): the strategy runs with               *)
(*     reset_daily_stats(), update_domestic_positions(),                   *)
(*     check_stop_loss() and the order methods; specification KisSpec.     *)
(* Next to them:                                                           *)
(*   - TelegramNotifier.send_message() (src/util/telegram_bot.py) with     *)
(*     UpbitAPI._handle_api_error() (src/upbit/api.py) and the signal      *)
(*     handler of main.py; specification NotifySpec.                       *)
(*   - generate_signals() of the two analyzers (src/upbit/analyzer.py,     *)
(*     src/kis/analyzer.py); specification SignalSpec.  The analysis of a  *)
(*     table of any length, with the order it leads to: WarmupSpec.        *)
(*     calculate_rsi() over tables of close prices: RsiSpec.               *)
(*   - KisTrader's methods called one by one (sell_domestic_stock(),       *)
(*     update_domestic_positions(), reset_daily_stats()): LedgerSpec.      *)
(*   - the termination signal arriving while orders wait on the exchange:  *)
(*     ShutdownSpec.                                                       *)
(*   - UpbitTrader's methods called one by one: CallSpec; the order        *)
(*     methods of KisTrader called one by one: OrderSpec.                  *)
(*   - run() with a position open and an exchange that answers every call, *)
(*     under weak fairness: WatchSpec.                                     *)
(*                                                                         *)
(* A handler of the program is an operator that maps the state it reads    *)
(* to the set of its outcomes, one outcome per behaviour of the exchange   *)
(* (accept or reject, fill now or later, HTTP error, network error).  An   *)
(* action picks one outcome of its handler.                                *)
(***************************************************************************)
EXTENDS Integers, Sequences, FiniteSets, TLC

\* ------------------------------------------------------------------ bounds
\* Iterations of the main loop of run() that are explored.
MaxLoops == 3
\* Orders the exchange accepts in one behaviour.
MaxOrders == 2
\* Trades made on the account from outside the program (the exchange's app).
MaxExternal == 1

\* ------------------------------------------------------- program constants
\* range(10): status polls per submitted order (buy and sell).
PollAttempts == 10
\* buy(): minimum order amount in KRW.
MinOrderKRW == 5000
\* util config defaults read by run() and by KisTrader.__init__
stop_loss_percent == 3
stop_loss_percent_high == 2
max_investment_per_trade == 100000
max_daily_loss == 50000
\* check_signal(): only the first five of the top-volume markets are analysed.
TopSignalCount == 5

Timers == {"10s", "1m", "5m", "1h"}
Interval == [t \in Timers |->
               CASE t = "10s" -> 10 [] t = "1m" -> 60 [] t = "5m" -> 300 [] OTHER -> 3600]

\* ------------------------------------------------------------ input domains
Markets == {"KRW-AAA", "KRW-BBB"}
\* The order in which the exchange lists the account's assets.
BalanceOrder == <<"KRW-AAA", "KRW-BBB">>
Prices == {100, 110}
\* Seconds between two consecutive readings of datetime.now() at the loop top:
\* the one-second sleep alone, or the sleep plus slow calls.
Delays == {1, 10, 60, 300, 3600}
\* KRW on the account at start-up.
InitialKRW == {60000}

Max2(a, b) == IF a >= b THEN a ELSE b

\* ------------------------------------------------------------------- state
VARIABLES
    position,          \* UpbitTrader.position
    top_volume_coins,  \* UpbitTrader.top_volume_coins
    elapsed,           \* now - last_check_time[t], for the now of the current iteration
                       \* (kept up to Interval[t]: beyond it the task is due all the same)
    loop_count,        \* run(): loop_count
    pc,                \* where run() stands
    ex,                \* the Upbit exchange: krw, coins, orders
    n_external,        \* trades made from outside so far
    realized_loss,     \* KRW lost by the sells so far: sell() computes each sell's
                       \* profit_amount and writes it to the log and to the notification
    ev,                \* what the last handler did: result, order, polls, log, notifications
    kis,               \* the KIS trader and its exchange (KisSpec)
    notifier,          \* the TelegramNotifier (NotifySpec)
    sent,              \* the last message given to the notifier and what became of it
    api,               \* the UpbitAPI object and the process it runs in (NotifySpec)
    analysis           \* the last two rows of the indicator table and the signals
                       \* generate_signals() derives from them (SignalSpec,
                       \* WarmupSpec); the close prices of a table and the RSI of
                       \* its last row (RsiSpec)

vars == <<position, top_volume_coins, elapsed, loop_count, pc, ex, n_external,
          realized_loss, ev, kis, notifier, sent, api, analysis>>

\* ------------------------------------------------------- the position record
\* __init__ and position_exited(): the record of "no position".
\* entry_time is None or a timestamp; the timestamp is only formatted into log
\* text, so the model keeps whether it is set.
FlatPosition ==
    [market |-> "", entry_price |-> 0, amount |-> 0, top_price |-> 0, entry_time |-> "None"]

\* A variant of position_entered() that does not take over the amount.
position_entered_without_amount(market, price, amount) ==
    [market |-> market, entry_price |-> price, amount |-> 0,
     top_price |-> price, entry_time |-> "datetime"]

\* A variant of position_entered() that leaves the high-water mark at 0.
position_entered_without_top(market, price, amount) ==
    [market |-> market, entry_price |-> price, amount |-> amount,
     top_price |-> 0, entry_time |-> "datetime"]

\* position_entered(): the record is replaced, whatever it held before.
position_entered(market, price, amount) ==
    [market |-> market, entry_price |-> price, amount |-> amount,
     top_price |-> price, entry_time |-> "datetime"]

position_exited == FlatPosition

\* --------------------------------------------------------------- the events
\* op, market, result: the handler, its argument and how it ended; polls: calls of
\* get_order_status(); uuid: the order the exchange accepted (0: none); submitted:
\* run_order() was called; warned: logger.warning() was called; notes: the
\* notifier's messages; requested, count: cancel_abnormal_orders()'s requests and
\* its canceled_count; price: the current price the handler read (0: none);
\* profit_amount: what a completed sell reports as its profit in KRW.
NoEv == [op |-> "none", market |-> "", result |-> "none", polls |-> 0, uuid |-> 0,
         submitted |-> FALSE, warned |-> FALSE, notes |-> {}, requested |-> {}, count |-> 0,
         price |-> 0, profit_amount |-> 0]

Ev(op, market, result, polls, uuid, submitted, warned, notes) ==
    [op |-> op, market |-> market, result |-> result, polls |-> polls, uuid |-> uuid,
     submitted |-> submitted, warned |-> warned, notes |-> notes, requested |-> {},
     count |-> 0, price |-> 0, profit_amount |-> 0]

\* ------------------------------------------------------------- the exchange
\* An order locks what it spends (KRW for a bid, coins for an ask) until it is
\* executed or cancelled; "balance" is what is not locked.  Of an order that is
\* no longer waiting the exchange keeps the market, the side and the state.
NewOrder(market, side, amount) ==
    [market |-> market, side |-> side, state |-> "wait", amount |-> amount]

CanAccept(x, market, side, amount) ==
    /\ Len(x.orders) < MaxOrders
    /\ amount > 0
    /\ IF side = "bid" THEN amount <= x.krw ELSE amount <= x.coins[market].balance

Accept(x, market, side, amount) ==
    IF side = "bid"
    THEN [x EXCEPT !.krw = @ - amount,
                   !.orders = Append(@, NewOrder(market, side, amount))]
    ELSE [x EXCEPT !.coins[market].balance = @ - amount,
                   !.orders = Append(@, NewOrder(market, side, amount))]

\* get_order_status() of an order executed in full at price p.
Executed(o, p) ==
    [executed_volume |-> IF o.side = "bid" THEN o.amount \div p ELSE o.amount,
     avg_price |-> p]

\* The order is executed in full at the market's price p of that moment.
Fill(x, uuid, p) ==
    LET o == x.orders[uuid]
    IN IF o.side = "bid"
       THEN LET vol == o.amount \div p
                old == x.coins[o.market]
                nb  == old.balance + vol
            IN [x EXCEPT
                  !.coins[o.market] =
                      [balance |-> nb,
                       avg_buy_price |-> (old.balance * old.avg_buy_price + vol * p) \div nb],
                  !.orders[uuid] = [o EXCEPT !.state = "done", !.amount = 0]]
       ELSE [x EXCEPT
               !.krw = @ + o.amount * p,
               !.orders[uuid] = [o EXCEPT !.state = "done", !.amount = 0]]

Cancel(x, uuid) ==
    LET o == x.orders[uuid]
    IN IF o.side = "bid"
       THEN [x EXCEPT !.krw = @ + o.amount,
                      !.orders[uuid] = [o EXCEPT !.state = "cancel", !.amount = 0]]
       ELSE [x EXCEPT !.coins[o.market].balance = @ + o.amount,
                      !.orders[uuid] = [o EXCEPT !.state = "cancel", !.amount = 0]]

WaitOrders(x) == {u \in 1..Len(x.orders) : x.orders[u].state = "wait"}

\* ------------------------------------------------------- handler outcomes
\* ctl: "ok" the handler returned; "raise" an exception left it; "exit" sys.exit
\* ended the process (UpbitAPI._handle_api_error on HTTP 401 and 5xx).
Out(pos, x, e, ctl) == [position |-> pos, ex |-> x, ev |-> e, ctl |-> ctl]

\* A variant of the polling loop that has no bound: it polls until 'done'.
poll_order_until_done(fill_at, i) == fill_at

\* for i in range(10): get_order_status() reports 'done' from the poll on at
\* which the exchange has executed the order.  The first poll that reports
\* 'done', 0 when none of the ten does.
RECURSIVE poll_order(_, _)
poll_order(fill_at, i) ==
    IF i > PollAttempts THEN 0
    ELSE IF i >= fill_at THEN i
    ELSE poll_order(fill_at, i + 1)

\* When the exchange executes an order relative to the polls: before the
\* first, before the last, or not while the caller polls.
FillTimes == {1, PollAttempts, PollAttempts + 1}

\* buy(): the amount of a market buy, 90% of the KRW balance.
buy_amount(krw_balance) == (krw_balance * 9) \div 10

\* buy() without the test for an open position
buy_over_open_position(market, pos, x) ==
    IF FALSE
    THEN {}
    ELSE
      \* get_balances() raises, or answers HTTP 401/5xx, or answers another
      \* error status (an empty list: the KRW balance reads 0)
      {Out(pos, x, Ev("buy", market, "error", 0, 0, FALSE, FALSE, {"buy_error"}), "ok"),
       Out(pos, x, Ev("buy", market, "fatal", 0, 0, FALSE, FALSE, {}), "exit"),
       Out(pos, x, Ev("buy", market, "insufficient", 0, 0, FALSE, TRUE, {}), "ok")}
      \cup
      IF buy_amount(x.krw) < MinOrderKRW
      THEN {Out(pos, x, Ev("buy", market, "insufficient", 0, 0, FALSE, TRUE, {}), "ok")}
      ELSE
        \* run_order(): refused by the exchange, or the call raises
        {Out(pos, x, Ev("buy", market, "rejected", 0, 0, TRUE, FALSE, {}), "ok"),
         Out(pos, x, Ev("buy", market, "error", 0, 0, TRUE, FALSE, {"buy_error"}), "ok")}
        \cup
        IF ~CanAccept(x, market, "bid", buy_amount(x.krw))
        THEN {}
        ELSE
          LET x1   == Accept(x, market, "bid", buy_amount(x.krw))
              uuid == Len(x1.orders)
          IN {LET k == poll_order(f, 1)
              IN IF k > 0
                 THEN LET x2 == Fill(x1, uuid, p)
                          o  == Executed(x1.orders[uuid], p)
                      IN Out(position_entered(market, o.avg_price, o.executed_volume), x2,
                             Ev("buy", market, "filled", k, uuid, TRUE, FALSE,
                                {"buy_done", "position_entered"}), "ok")
                 ELSE Out(pos, x1,
                          Ev("buy", market, "timeout", PollAttempts, uuid, TRUE, TRUE, {}),
                          "ok")
              : f \in FillTimes, p \in Prices}
             \cup
             \* get_order_status() raises, or answers HTTP 401/5xx
             {Out(pos, x1, Ev("buy", market, "error", 1, uuid, TRUE, FALSE, {"buy_error"}),
                  "ok"),
              Out(pos, x1, Ev("buy", market, "fatal", 1, uuid, TRUE, FALSE, {}), "exit")}

\* buy(market)
buy(market, pos, x) ==
    IF pos.market # ""
    THEN {Out(pos, x, Ev("buy", market, "has_position", 0, 0, FALSE, TRUE, {}), "ok")}
    ELSE
      \* get_balances() raises, or answers HTTP 401/5xx, or answers another
      \* error status (an empty list: the KRW balance reads 0)
      {Out(pos, x, Ev("buy", market, "error", 0, 0, FALSE, FALSE, {"buy_error"}), "ok"),
       Out(pos, x, Ev("buy", market, "fatal", 0, 0, FALSE, FALSE, {}), "exit"),
       Out(pos, x, Ev("buy", market, "insufficient", 0, 0, FALSE, TRUE, {}), "ok")}
      \cup
      IF buy_amount(x.krw) < MinOrderKRW
      THEN {Out(pos, x, Ev("buy", market, "insufficient", 0, 0, FALSE, TRUE, {}), "ok")}
      ELSE
        \* run_order(): refused by the exchange, or the call raises
        {Out(pos, x, Ev("buy", market, "rejected", 0, 0, TRUE, FALSE, {}), "ok"),
         Out(pos, x, Ev("buy", market, "error", 0, 0, TRUE, FALSE, {"buy_error"}), "ok")}
        \cup
        IF ~CanAccept(x, market, "bid", buy_amount(x.krw))
        THEN {}
        ELSE
          LET x1   == Accept(x, market, "bid", buy_amount(x.krw))
              uuid == Len(x1.orders)
          IN {LET k == poll_order(f, 1)
              IN IF k > 0
                 THEN LET x2 == Fill(x1, uuid, p)
                          o  == Executed(x1.orders[uuid], p)
                      IN Out(position_entered(market, o.avg_price, o.executed_volume), x2,
                             Ev("buy", market, "filled", k, uuid, TRUE, FALSE,
                                {"buy_done", "position_entered"}), "ok")
                 ELSE Out(pos, x1,
                          Ev("buy", market, "timeout", PollAttempts, uuid, TRUE, TRUE, {}),
                          "ok")
              : f \in FillTimes, p \in Prices}
             \cup
             \* get_order_status() raises, or answers HTTP 401/5xx
             {Out(pos, x1, Ev("buy", market, "error", 1, uuid, TRUE, FALSE, {"buy_error"}),
                  "ok"),
              Out(pos, x1, Ev("buy", market, "fatal", 1, uuid, TRUE, FALSE, {}), "exit")}

\* sell(): profit_amount = total_price - executed_volume * entry_price
profit_amount(o, entry_price) ==
    o.executed_volume * o.avg_price - o.executed_volume * entry_price

\* sell(): from the order request on
sell_order(market, pos, x) ==
    {Out(pos, x, Ev("sell", market, "rejected", 0, 0, TRUE, FALSE, {}), "ok"),
     Out(pos, x, Ev("sell", market, "error", 0, 0, TRUE, FALSE, {"sell_error"}), "ok")}
    \cup
    IF ~CanAccept(x, market, "ask", pos.amount)
    THEN {}
    ELSE
      LET x1   == Accept(x, market, "ask", pos.amount)
          uuid == Len(x1.orders)
      IN {LET k == poll_order(f, 1)
          IN IF k > 0
             THEN IF pos.entry_price = 0
                  \* profit_pct = (avg_price - entry_price) / entry_price * 100
                  \* raises ZeroDivisionError before position_exited()
                  THEN Out(pos, Fill(x1, uuid, p),
                           Ev("sell", market, "error", k, uuid, TRUE, FALSE, {"sell_error"}),
                           "ok")
                  ELSE Out(position_exited, Fill(x1, uuid, p),
                           [Ev("sell", market, "filled", k, uuid, TRUE, FALSE,
                               {"sell_done", "position_exited"})
                              EXCEPT !.profit_amount =
                                       profit_amount(Executed(x1.orders[uuid], p),
                                                     pos.entry_price)],
                           "ok")
             ELSE Out(pos, x1,
                      Ev("sell", market, "timeout", PollAttempts, uuid, TRUE, TRUE, {}), "ok")
          : f \in FillTimes, p \in Prices}
         \cup
         {Out(pos, x1, Ev("sell", market, "error", 1, uuid, TRUE, FALSE, {"sell_error"}), "ok"),
          Out(pos, x1, Ev("sell", market, "fatal", 1, uuid, TRUE, FALSE, {}), "exit")}

\* sell(): the price call has answered with a price: current_profit_pct divides
\* by entry_price
sell_priced(market, pos, x) ==
    IF pos.entry_price = 0
    THEN {Out(pos, x, Ev("sell", market, "error", 0, 0, FALSE, FALSE, {"sell_error"}), "ok")}
    ELSE sell_order(market, pos, x)

\* sell() that tests only whether a position is open, not its market
sell_any_position(market, pos, x) ==
    IF pos.market = ""
    THEN {Out(pos, x, Ev("sell", market, "no_position", 0, 0, FALSE, TRUE, {}), "ok")}
    ELSE IF pos.amount <= 0
    THEN {Out(pos, x, Ev("sell", market, "no_amount", 0, 0, FALSE, TRUE, {}), "ok")}
    ELSE
      {Out(pos, x, Ev("sell", market, "error", 0, 0, FALSE, FALSE, {"sell_error"}), "ok"),
       Out(pos, x, Ev("sell", market, "fatal", 0, 0, FALSE, FALSE, {}), "exit")}
      \cup
      (IF pos.entry_price = 0
       THEN {Out(pos, x, Ev("sell", market, "error", 0, 0, FALSE, FALSE, {"sell_error"}),
                 "ok")}
       ELSE sell_order(market, pos, x))
      \cup
      sell_order(market, pos, x)

\* sell(market)
sell(market, pos, x) ==
    IF pos.market = "" \/ pos.market # market
    THEN {Out(pos, x, Ev("sell", market, "no_position", 0, 0, FALSE, TRUE, {}), "ok")}
    ELSE IF pos.amount <= 0
    THEN {Out(pos, x, Ev("sell", market, "no_amount", 0, 0, FALSE, TRUE, {}), "ok")}
    ELSE
      \* get_current_price() raises, or answers HTTP 401/5xx
      {Out(pos, x, Ev("sell", market, "error", 0, 0, FALSE, FALSE, {"sell_error"}), "ok"),
       Out(pos, x, Ev("sell", market, "fatal", 0, 0, FALSE, FALSE, {}), "exit")}
      \cup
      sell_priced(market, pos, x)
      \cup
      \* the price call answers another error status: {} and the computation is skipped
      sell_order(market, pos, x)

\* check_position(): the first asset of the list that is not KRW and has a
\* positive balance, "" when there is none.
FirstHeld(x) ==
    LET held == {i \in 1..Len(BalanceOrder) : x.coins[BalanceOrder[i]].balance > 0}
    IN IF held = {} THEN ""
       ELSE BalanceOrder[CHOOSE i \in held : \A j \in held : i <= j]

\* A variant of the high-water update that takes every current price.
update_top_price_always(pos, current_price) ==
    [pos EXCEPT !.top_price = current_price]

\* check_position(): the high-water mark follows a higher current price
update_top_price(pos, current_price) ==
    IF current_price > pos.top_price
    THEN [pos EXCEPT !.top_price = current_price]
    ELSE pos

\* check_position()
check_position(pos, x) ==
    \* get_balances() raises (caught and logged), or answers HTTP 401/5xx
    {Out(pos, x, Ev("check_position", "", "error", 0, 0, FALSE, FALSE, {}), "ok"),
     Out(pos, x, Ev("check_position", "", "fatal", 0, 0, FALSE, FALSE, {}), "exit")}
    \cup
    \* get_balances() answers another error status: the list is empty
    {IF pos.market # ""
     THEN Out(position_exited, x,
              Ev("check_position", "", "no_balances", 0, 0, FALSE, FALSE,
                 {"position_exited"}), "ok")
     ELSE Out(pos, x, Ev("check_position", "", "no_balances", 0, 0, FALSE, FALSE, {}), "ok")}
    \cup
    LET market == FirstHeld(x)
    IN IF market = ""
       THEN {IF pos.market # ""
             THEN Out(position_exited, x,
                      Ev("check_position", "", "exited", 0, 0, FALSE, FALSE,
                         {"position_exited"}), "ok")
             ELSE Out(pos, x, Ev("check_position", "", "flat", 0, 0, FALSE, FALSE, {}), "ok")}
       ELSE
         LET amount        == x.coins[market].balance
             avg_buy_price == x.coins[market].avg_buy_price
         IN IF pos.market = "" \/ pos.market # market
            THEN {Out(position_entered(market, avg_buy_price, amount), x,
                      Ev("check_position", market, "entered", 0, 0, FALSE, FALSE,
                         {"position_entered"}), "ok")}
            ELSE
              LET pos1 == [pos EXCEPT !.amount = amount]
              IN {\* get_current_price() raises after the amount was updated
                  Out(pos1, x, Ev("check_position", market, "error", 0, 0, FALSE, FALSE, {}),
                      "ok"),
                  \* it answers an error status: {} and no high-water update
                  Out(pos1, x, Ev("check_position", market, "updated", 0, 0, FALSE, FALSE, {}),
                      "ok")}
                 \cup
                 {Out(update_top_price(pos1, current_price),
                      x,
                      [Ev("check_position", market, "priced", 0, 0, FALSE, FALSE, {})
                         EXCEPT !.price = current_price],
                      "ok")
                  : current_price \in Prices}

\* cancel_abnormal_orders(): the loop over the waiting orders, in the order of
\* the list.  r[u] is the exchange's answer to set_order_cancel(u): "ok" (the
\* order is cancelled), "fail" (an error status: {}), "raise".
RECURSIVE cancel_each(_, _, _, _, _)
cancel_each(x, todo, r, requested, count) ==
    IF todo = {}
    THEN [ex |-> x, requested |-> requested, count |-> count, raised |-> FALSE]
    ELSE LET u == CHOOSE v \in todo : \A w \in todo : v <= w
         IN IF r[u] = "ok"
            THEN cancel_each(Cancel(x, u), todo \ {u}, r, requested \cup {u}, count + 1)
            ELSE IF r[u] = "fail"
            THEN cancel_each(x, todo \ {u}, r, requested \cup {u}, count)
            ELSE [ex |-> x, requested |-> requested \cup {u}, count |-> count,
                  raised |-> TRUE]

\* cancel_abnormal_orders()
cancel_abnormal_orders(pos, x) ==
    \* get_wait_order() raises (caught), answers HTTP 401/5xx, or answers another
    \* error status ({}: "no waiting order")
    {Out(pos, x, Ev("cancel_abnormal_orders", "", "error", 0, 0, FALSE, FALSE, {}), "ok"),
     Out(pos, x, Ev("cancel_abnormal_orders", "", "fatal", 0, 0, FALSE, FALSE, {}), "exit"),
     Out(pos, x, Ev("cancel_abnormal_orders", "", "none", 0, 0, FALSE, FALSE, {}), "ok")}
    \cup
    IF WaitOrders(x) = {}
    THEN {Out(pos, x, Ev("cancel_abnormal_orders", "", "none", 0, 0, FALSE, FALSE, {}), "ok")}
    ELSE {LET c == cancel_each(x, WaitOrders(x), r, {}, 0)
          IN Out(pos, c.ex,
                 [Ev("cancel_abnormal_orders", "",
                     IF c.raised THEN "error" ELSE "listed", 0, 0, FALSE, FALSE,
                     IF c.count > 0 /\ ~c.raised THEN {"orders_cancelled"} ELSE {})
                    EXCEPT !.requested = c.requested, !.count = c.count],
                 "ok")
          : r \in [WaitOrders(x) -> {"ok", "fail", "raise"}]}

\* set_top_volume_10min(): the markets the exchange lists, sorted by their
\* turnover of the last ten minutes, at most ten of them.
TopLists ==
    {<<>>} \cup {<<a>> : a \in Markets}
           \cup UNION {{<<a, b>> : b \in Markets \ {a}} : a \in Markets}

\* set_top_volume_10min(): the new top_volume_coins
set_top_volume_10min(top) ==
    \* get_market_info() raises before the assignment
    {[top |-> top, ev |-> Ev("set_top_volume_10min", "", "error", 0, 0, FALSE, FALSE, {}),
      ctl |-> "ok"],
     [top |-> top, ev |-> Ev("set_top_volume_10min", "", "fatal", 0, 0, FALSE, FALSE, {}),
      ctl |-> "exit"]}
    \cup
    {[top |-> s, ev |-> Ev("set_top_volume_10min", "", "ranked", 0, 0, FALSE, FALSE, {}),
      ctl |-> "ok"] : s \in TopLists}

\* dis_portfolio(): a report; it changes nothing of the trader.
dis_portfolio(pos, x) ==
    {Out(pos, x, Ev("dis_portfolio", "", "error", 0, 0, FALSE, FALSE, {}), "ok"),
     Out(pos, x, Ev("dis_portfolio", "", "fatal", 0, 0, FALSE, FALSE, {}), "exit"),
     Out(pos, x, Ev("dis_portfolio", "", "reported", 0, 0, FALSE, FALSE, {"portfolio"}), "ok")}

\* analyzer.run_trading_analyzer(market) for every market: a buy signal or none.
SignalInputs == [Markets -> BOOLEAN]

\* check_signal(): the markets analysed, top_volume_coins[:5]
SignalCandidates(top) ==
    SubSeq(top, 1, IF Len(top) < TopSignalCount THEN Len(top) ELSE TopSignalCount)

\* check_signal() without the break: every candidate with a signal is bought
check_signal_on_no_break(pos, x, top, sig) ==
    IF pos.market # ""
    THEN {Out(pos, x, Ev("check_signal", pos.market, "holding", 0, 0, FALSE, FALSE, {}), "ok")}
    ELSE IF top = <<>>
    THEN {Out(pos, x, Ev("check_signal", "", "no_coins", 0, 0, FALSE, TRUE, {}), "ok")}
    ELSE LET cand == SignalCandidates(top)
             hits == {i \in 1..Len(cand) : sig[cand[i]]}
         IN IF hits = {}
            THEN {Out(pos, x, Ev("check_signal", "", "no_signal", 0, 0, FALSE, FALSE, {}), "ok")}
            ELSE LET first == CHOOSE i \in hits : \A j \in hits : i <= j
                     last  == CHOOSE i \in hits : \A j \in hits : i >= j
                 IN IF first = last
                    THEN buy(cand[first], pos, x)
                    ELSE UNION {IF o.ctl = "ok"
                                THEN buy(cand[last], o.position, o.ex)
                                ELSE {o}
                                : o \in buy(cand[first], pos, x)}

\* check_signal(), given what run_trading_analyzer() answers for each market
check_signal_on(pos, x, top, sig) ==
    IF pos.market # ""
    THEN {Out(pos, x, Ev("check_signal", pos.market, "holding", 0, 0, FALSE, FALSE, {}), "ok")}
    ELSE IF top = <<>>
    THEN {Out(pos, x, Ev("check_signal", "", "no_coins", 0, 0, FALSE, TRUE, {}), "ok")}
    ELSE LET cand == SignalCandidates(top)
             hits == {i \in 1..Len(cand) : sig[cand[i]]}
         IN IF hits = {}
            THEN {Out(pos, x, Ev("check_signal", "", "no_signal", 0, 0, FALSE, FALSE, {}), "ok")}
            ELSE buy(cand[CHOOSE i \in hits : \A j \in hits : i <= j], pos, x)

\* check_signal(): the analysis raises before any signal (check_signal() catches
\* nothing)
check_signal_raises(pos, x, top) ==
    IF pos.market = "" /\ top # <<>>
    THEN {Out(pos, x, Ev("check_signal", "", "raise", 0, 0, FALSE, FALSE, {}), "raise")}
    ELSE {}

\* check_signal()
check_signal(pos, x, top) ==
    check_signal_raises(pos, x, top)
    \cup UNION {check_signal_on(pos, x, top, sig) : sig \in SignalInputs}

\* analyzer.check_stop_loss_condition(): the risk gate over the position and
\* the current price it reads.  Base stop-loss: the profit relative to the entry price
\* is at most -stop_loss_percent; trailing stop: the fall from top_price is at
\* least stop_loss_percent_high percent.  A zero entry (or top) price is guarded.
check_stop_loss_condition(pos, current_price) ==
    \/ /\ pos.entry_price # 0
       /\ (current_price - pos.entry_price) * 100 <= -stop_loss_percent * pos.entry_price
    \/ /\ pos.top_price # 0
       /\ (current_price - pos.top_price) * 100 <= -stop_loss_percent_high * pos.top_price

\* run(): the 10-second block
stop_loss_block(pos, x) ==
    IF pos.market # ""
    THEN \* the condition's price call raises: run() ends in its except clause
         {Out(pos, x, Ev("stop_loss", pos.market, "raise", 0, 0, FALSE, FALSE, {}), "raise")}
         \cup
         UNION {IF check_stop_loss_condition(pos, current_price)
                THEN {[o EXCEPT !.ev.price = current_price] : o \in sell(pos.market, pos, x)}
                ELSE {Out(pos, x,
                          [Ev("stop_loss", pos.market, "hold", 0, 0, FALSE, FALSE, {})
                             EXCEPT !.price = current_price],
                          "ok")}
                : current_price \in Prices}
    ELSE {Out(pos, x, Ev("stop_loss", "", "flat", 0, 0, FALSE, FALSE, {}), "ok")}

\* ----------------------------------------------------------------- run()
\* a task that is due in every iteration, whatever time has passed
DueInEveryIteration(t) == elapsed[t] >= 1

Due(t) == elapsed[t] >= Interval[t]

Running == pc \notin {"stopped", "exited"}

\* after a handler: the next statement of run(), its except clause, or the end
\* of the process
After(ctl, next) == IF ctl = "ok" THEN next ELSE IF ctl = "raise" THEN "stopped" ELSE "exited"

Apply(o, next) ==
    /\ position' = o.position
    /\ ex' = o.ex
    /\ ev' = o.ev
    /\ realized_loss' = realized_loss + Max2(0, 0 - o.ev.profit_amount)
    /\ pc' = After(o.ctl, next)

\* run(): the initial check_position()
InitialCheck ==
    /\ pc = "start"
    /\ \E o \in check_position(position, ex) : Apply(o, "start_portfolio")
    /\ UNCHANGED <<top_volume_coins, elapsed, loop_count, n_external, kis,
                   notifier, sent, api, analysis>>

\* run(): the initial dis_portfolio()
InitialPortfolio ==
    /\ pc = "start_portfolio"
    /\ \E o \in dis_portfolio(position, ex) : Apply(o, "top")
    /\ UNCHANGED <<top_volume_coins, elapsed, loop_count, n_external, kis,
                   notifier, sent, api, analysis>>

\* while True: now = datetime.now(); loop_count += 1.  d seconds have passed
\* since the previous reading of the clock.
LoopTop ==
    /\ pc = "top"
    /\ loop_count < MaxLoops
    /\ \E d \in Delays :
          elapsed' = [t \in Timers |-> IF elapsed[t] + d >= Interval[t]
                                       THEN Interval[t] ELSE elapsed[t] + d]
    /\ loop_count' = loop_count + 1
    /\ pc' = "10s"
    /\ ev' = NoEv
    /\ UNCHANGED <<position, top_volume_coins, ex, n_external, realized_loss, kis,
                   notifier, sent, api, analysis>>

\* every 10 seconds: the stop-loss check of an open position
Tick10s ==
    /\ pc = "10s"
    /\ IF Due("10s")
       THEN /\ elapsed' = [elapsed EXCEPT !["10s"] = 0]
            /\ \E o \in stop_loss_block(position, ex) : Apply(o, "1m")
       ELSE /\ pc' = "1m"
            /\ UNCHANGED <<elapsed, position, ex, realized_loss, ev>>
    /\ UNCHANGED <<top_volume_coins, loop_count, n_external, kis,
                   notifier, sent, api, analysis>>

\* A variant of the 1-minute block that runs check_signal() in every iteration.
Tick1mSignalEveryIteration ==
    /\ pc = "1m"
    /\ elapsed' = [elapsed EXCEPT !["1m"] = IF Due("1m") THEN 0 ELSE @]
    /\ \E o \in check_signal(position, ex, top_volume_coins) : Apply(o, "1m_cancel")
    /\ UNCHANGED <<top_volume_coins, loop_count, n_external, kis,
                   notifier, sent, api, analysis>>

\* every minute: check_signal() ...
Tick1mSignal ==
    /\ pc = "1m"
    /\ IF Due("1m")
       THEN /\ elapsed' = [elapsed EXCEPT !["1m"] = 0]
            /\ \E o \in check_signal(position, ex, top_volume_coins) : Apply(o, "1m_cancel")
       ELSE /\ pc' = "5m"
            /\ UNCHANGED <<elapsed, position, ex, realized_loss, ev>>
    /\ UNCHANGED <<top_volume_coins, loop_count, n_external, kis,
                   notifier, sent, api, analysis>>

\* ... and cancel_abnormal_orders()
Tick1mCancel ==
    /\ pc = "1m_cancel"
    /\ \E o \in cancel_abnormal_orders(position, ex) : Apply(o, "5m")
    /\ UNCHANGED <<top_volume_coins, elapsed, loop_count, n_external, kis,
                   notifier, sent, api, analysis>>

\* A variant of the 5-minute block without its check_position().
Tick5mVolumeOnly ==
    /\ pc = "5m"
    /\ IF Due("5m")
       THEN /\ elapsed' = [elapsed EXCEPT !["5m"] = 0]
            /\ \E o \in set_top_volume_10min(top_volume_coins) :
                  /\ top_volume_coins' = o.top
                  /\ ev' = o.ev
                  /\ pc' = After(o.ctl, "1h")
       ELSE /\ pc' = "1h"
            /\ UNCHANGED <<elapsed, top_volume_coins, ev>>
    /\ UNCHANGED <<position, ex, loop_count, n_external, realized_loss, kis,
                   notifier, sent, api, analysis>>

\* every 5 minutes: set_top_volume_10min() ...
Tick5mVolume ==
    /\ pc = "5m"
    /\ IF Due("5m")
       THEN /\ elapsed' = [elapsed EXCEPT !["5m"] = 0]
            /\ \E o \in set_top_volume_10min(top_volume_coins) :
                  /\ top_volume_coins' = o.top
                  /\ ev' = o.ev
                  /\ pc' = After(o.ctl, "5m_position")
       ELSE /\ pc' = "1h"
            /\ UNCHANGED <<elapsed, top_volume_coins, ev>>
    /\ UNCHANGED <<position, ex, loop_count, n_external, realized_loss, kis,
                   notifier, sent, api, analysis>>

\* ... and check_position()
Tick5mPosition ==
    /\ pc = "5m_position"
    /\ \E o \in check_position(position, ex) : Apply(o, "1h")
    /\ UNCHANGED <<top_volume_coins, elapsed, loop_count, n_external, kis,
                   notifier, sent, api, analysis>>

\* every hour: dis_portfolio(); then time.sleep(1)
Tick1h ==
    /\ pc = "1h"
    /\ IF Due("1h")
       THEN /\ elapsed' = [elapsed EXCEPT !["1h"] = 0]
            /\ \E o \in dis_portfolio(position, ex) : Apply(o, "top")
       ELSE /\ pc' = "top"
            /\ UNCHANGED <<elapsed, position, ex, realized_loss, ev>>
    /\ UNCHANGED <<top_volume_coins, loop_count, n_external, kis,
                   notifier, sent, api, analysis>>

\* ------------------------------------- run() while every call is answered
\* The loop of run() with an exchange that answers every call, accepts every
\* order and executes it before the first poll, at a price that stays where it
\* is, and with an analyzer that reports no buy signal.
\* the price every price call answers
StopPrice == 100
\* seconds between two readings of the clock
WatchDelays == {60, 3600}

\* the outcomes of a handler in which it returned with one of these results
Answered(outcomes, results) == {o \in outcomes : o.ctl = "ok" /\ o.ev.result \in results}

\* while True: now = datetime.now(); loop_count feeds a log line only
WatchTop ==
    /\ pc = "top"
    /\ \E d \in WatchDelays :
          elapsed' = [t \in Timers |-> IF elapsed[t] + d >= Interval[t]
                                       THEN Interval[t] ELSE elapsed[t] + d]
    /\ pc' = "10s"
    /\ ev' = NoEv
    /\ UNCHANGED <<position, top_volume_coins, loop_count, ex, n_external, realized_loss, kis,
                   notifier, sent, api, analysis>>

\* every 10 seconds: the stop-loss check; sell() is given the price, and an
\* order it requests is filled
Watch10s ==
    /\ pc = "10s"
    /\ IF Due("10s")
       THEN /\ elapsed' = [elapsed EXCEPT !["10s"] = 0]
            /\ IF position.market # "" /\ check_stop_loss_condition(position, StopPrice)
               THEN \E o \in sell_priced(position.market, position, ex) :
                       /\ o \in sell(position.market, position, ex)
                       /\ o.ev.submitted => o.ev.result = "filled"
                       /\ Apply([o EXCEPT !.ev.price = StopPrice], "1m")
               ELSE \E o \in Answered(stop_loss_block(position, ex), {"hold", "flat"}) :
                       /\ o.ev.price \in {0, StopPrice}
                       /\ Apply(o, "1m")
       ELSE /\ pc' = "1m"
            /\ UNCHANGED <<elapsed, position, ex, realized_loss, ev>>
    /\ UNCHANGED <<top_volume_coins, loop_count, n_external, kis,
                   notifier, sent, api, analysis>>

\* every minute: check_signal() finds no signal, cancel_abnormal_orders() lists
\* the waiting orders and cancels them
Watch1m ==
    /\ pc = "1m"
    /\ IF Due("1m")
       THEN /\ elapsed' = [elapsed EXCEPT !["1m"] = 0]
            /\ \E s \in Answered(check_signal(position, ex, top_volume_coins),
                                  {"holding", "no_coins", "no_signal"}) :
                 \E o \in Answered(cancel_abnormal_orders(s.position, s.ex),
                                   {"none", "listed"}) :
                    /\ WaitOrders(o.ex) = {}
                    /\ Apply(o, "5m")
       ELSE /\ pc' = "5m"
            /\ UNCHANGED <<elapsed, position, ex, realized_loss, ev>>
    /\ UNCHANGED <<top_volume_coins, loop_count, n_external, kis,
                   notifier, sent, api, analysis>>

\* every 5 minutes: set_top_volume_10min() ranks the markets, check_position()
\* reads the balances and the price
Watch5m ==
    /\ pc = "5m"
    /\ IF Due("5m")
       THEN /\ elapsed' = [elapsed EXCEPT !["5m"] = 0]
            /\ \E v \in {w \in set_top_volume_10min(top_volume_coins) : w.ev.result = "ranked"} :
                  top_volume_coins' = v.top
            /\ \E o \in Answered(check_position(position, ex),
                                  {"flat", "exited", "entered", "priced"}) :
                  /\ o.ev.price \in {0, StopPrice}
                  /\ position.market = "" => FirstHeld(ex) = ""
                  /\ Apply(o, "1h")
       ELSE /\ pc' = "1h"
            /\ UNCHANGED <<elapsed, top_volume_coins, position, ex, realized_loss, ev>>
    /\ UNCHANGED <<loop_count, n_external, kis, notifier, sent, api, analysis>>

\* every hour: dis_portfolio(); then time.sleep(1)
Watch1h ==
    /\ pc = "1h"
    /\ IF Due("1h")
       THEN /\ elapsed' = [elapsed EXCEPT !["1h"] = 0]
            /\ \E o \in Answered(dis_portfolio(position, ex), {"reported"}) : Apply(o, "top")
       ELSE /\ pc' = "top"
            /\ UNCHANGED <<elapsed, position, ex, realized_loss, ev>>
    /\ UNCHANGED <<top_volume_coins, loop_count, n_external, kis,
                   notifier, sent, api, analysis>>

\* ------------------------------------------------- the exchange's own steps
\* A waiting order is executed.
ExchangeFill ==
    /\ Running
    /\ \E u \in WaitOrders(ex), p \in Prices : ex' = Fill(ex, u, p)
    /\ UNCHANGED <<position, top_volume_coins, elapsed, loop_count, pc, n_external,
                   realized_loss, ev, kis, notifier, sent, api, analysis>>

\* Between two iterations, coins arrive on the account from outside the
\* program (bought in the exchange's app, or deposited: a new holding then has
\* no purchase price) or leave it (sold in the app, or withdrawn).
ExternalLots == {5}

ExternalBuy ==
    /\ pc = "top"
    /\ loop_count < MaxLoops
    /\ n_external < MaxExternal
    /\ \E m \in Markets, q \in ExternalLots :
          ex' = [ex EXCEPT !.coins[m].balance = @ + q]
    /\ n_external' = n_external + 1
    /\ UNCHANGED <<position, top_volume_coins, elapsed, loop_count, pc, realized_loss, ev, kis,
                   notifier, sent, api, analysis>>

ExternalSell ==
    /\ pc = "top"
    /\ loop_count < MaxLoops
    /\ n_external < MaxExternal
    /\ \E m \in Markets :
          /\ ex.coins[m].balance > 0
          /\ ex' = [ex EXCEPT !.coins[m].balance = 0]
    /\ n_external' = n_external + 1
    /\ UNCHANGED <<position, top_volume_coins, elapsed, loop_count, pc, realized_loss, ev, kis,
                   notifier, sent, api, analysis>>

\* ------------------------------------------- UpbitTrader's methods, one by one
\* The methods of UpbitTrader called one at a time, with any market as the
\* argument, on a trader that has made its initial check_position().
\* The markets the exchange lists: those of the account and four more.
ListedMarkets == Markets \cup {"KRW-CCC", "KRW-DDD", "KRW-EEE", "KRW-FFF"}

\* top_volume_coins as set_top_volume_10min() left it: empty, short, or six
\* markets of which check_signal() takes the first five
RankedLists ==
    {<<>>, <<"KRW-AAA">>, <<"KRW-BBB", "KRW-AAA">>,
     <<"KRW-CCC", "KRW-DDD", "KRW-AAA", "KRW-EEE", "KRW-BBB", "KRW-FFF">>,
     <<"KRW-CCC", "KRW-DDD", "KRW-EEE", "KRW-FFF", "KRW-BBB", "KRW-AAA">>}

\* run_trading_analyzer(market) for the listed markets: a signal for none, for
\* one or for two of the last four markets of the rankings
ListedSignals ==
    {[m \in ListedMarkets |-> m \in h]
     : h \in {g \in SUBSET {"KRW-AAA", "KRW-BBB", "KRW-EEE", "KRW-FFF"} : Cardinality(g) <= 2}}

\* Calls made to the trader in one behaviour.
MaxCalls == 1

\* the call made last: the method, and the signals it was given
NoCall == [call |-> "none", sig |-> [m \in ListedMarkets |-> FALSE], calls |-> 0]

Called(name, sig) == [call |-> name, sig |-> sig, calls |-> analysis.calls + 1]

\* check_signal()
CallCheckSignal ==
    /\ pc = "top"
    /\ analysis.calls < MaxCalls
    /\ \E sig \in ListedSignals :
          /\ \E o \in check_signal_raises(position, ex, top_volume_coins)
                         \cup check_signal_on(position, ex, top_volume_coins, sig) :
                Apply(o, "top")
          /\ analysis' = Called("check_signal", sig)
    /\ UNCHANGED <<top_volume_coins, elapsed, loop_count, n_external, kis,
                   notifier, sent, api>>

\* buy(market)
CallBuy ==
    /\ pc = "top"
    /\ analysis.calls < MaxCalls
    /\ \E market \in Markets : \E o \in buy(market, position, ex) : Apply(o, "top")
    /\ analysis' = Called("buy", NoCall.sig)
    /\ UNCHANGED <<top_volume_coins, elapsed, loop_count, n_external, kis,
                   notifier, sent, api>>

\* sell(market)
CallSell ==
    /\ pc = "top"
    /\ analysis.calls < MaxCalls
    /\ \E market \in Markets : \E o \in sell(market, position, ex) : Apply(o, "top")
    /\ analysis' = Called("sell", NoCall.sig)
    /\ UNCHANGED <<top_volume_coins, elapsed, loop_count, n_external, kis,
                   notifier, sent, api>>

\* cancel_abnormal_orders()
CallCancel ==
    /\ pc = "top"
    /\ analysis.calls < MaxCalls
    /\ \E o \in cancel_abnormal_orders(position, ex) : Apply(o, "top")
    /\ analysis' = Called("cancel_abnormal_orders", NoCall.sig)
    /\ UNCHANGED <<top_volume_coins, elapsed, loop_count, n_external, kis,
                   notifier, sent, api>>

\* ================================================================ KisTrader
\* The symbols the strategy runs are called with (main.py's lists, shortened).
DomesticSymbols == <<"005930", "000660">>
OverseasSymbols == <<"AAPL">>
DomesticSet == {DomesticSymbols[i] : i \in 1..Len(DomesticSymbols)}
\* prpr of a holding in the balance answer: 3% or 2% below the purchase price
\* of 50000
HoldingPrices == {48500, 49000}
\* the price at which the exchange executes a market buy
ExecutionPrices == {50000}
\* analysis['price']
AnalysisPrices == {50000, 120000}
\* Strategy runs (iterations of run_trading's loop) that are explored.
MaxRuns == 2
\* Days that pass while the loop runs.
MaxDays == 1
\* Orders the KIS exchange accepts in one behaviour.
MaxKisOrders == 3

\* self.positions = {}
NoPositions == [s \in {} |-> 0]

Abs(n) == IF n < 0 THEN 0 - n ELSE n

\* update_domestic_positions(): ((current_price - avg_price) / avg_price) * 100.
\* The prices of the model make the quotient a whole number.
profit_percent(avg_price, current_price) ==
    ((current_price - avg_price) * 100) \div avg_price

\* update_domestic_positions(): the entry of self.positions
KisPosition(symbol, quantity, avg_price, current_price) ==
    [symbol |-> symbol, quantity |-> quantity, avg_price |-> avg_price,
     current_price |-> current_price,
     profit_percent |-> profit_percent(avg_price, current_price),
     market_type |-> "domestic"]

\* an entry of trade_history
Trade(symbol, type, quantity, market_type, reason, pct) ==
    [symbol |-> symbol, type |-> type, quantity |-> quantity, market_type |-> market_type,
     reason |-> reason, profit_percent |-> pct]

\* the account holds shares of the symbol: a domestic holding of the balance,
\* or an overseas symbol of which an earlier buy order was accepted
Owned(k, symbol) ==
    IF symbol \in DomesticSet
    THEN k.account[symbol].quantity > 0
    ELSE \E i \in 1..Len(k.trade_history) :
            k.trade_history[i].symbol = symbol /\ k.trade_history[i].type = "buy"

\* an order request of the current strategy run, with daily_loss as it stood,
\* whether self.positions had an entry for the symbol and whether the account
\* held it
Submitted(k, type, symbol, quantity, accepted) ==
    [type |-> type, symbol |-> symbol, quantity |-> quantity,
     daily_loss |-> k.daily_loss, held |-> symbol \in DOMAIN k.positions,
     owned |-> Owned(k, symbol), accepted |-> accepted]

\* The record kis: the fields of KisTrader (positions, trade_history,
\* daily_loss, last_reset_date); the exchange's side (account: the holdings,
\* n_orders: the orders it accepted); today: the date of the clock; log, notes:
\* the order requests and the notifications of the current strategy run;
\* checked, items: whether check_stop_loss() was called in the current strategy
\* run, and the entries of self.positions it went through; runs, pc: where
\* run_trading() stands; ret: what the order method called last returned.

\* a handler's outcome: the trader and account after it, its return value, and
\* whether it returned ("ok") or raised ("raise")
KOut(k, ret, ctl) == [k |-> k, ret |-> ret, ctl |-> ctl]

\* a strategy run begins: nothing requested, notified or checked yet
StartRun(k) == [k EXCEPT !.log = <<>>, !.notes = {}, !.checked = FALSE, !.items = NoPositions]

\* reset_daily_stats() without the test of the date
reset_daily_stats_every_call(k) ==
    [k EXCEPT !.daily_loss = 0, !.last_reset_date = k.today]

\* reset_daily_stats()
reset_daily_stats(k) ==
    IF k.today > k.last_reset_date
    THEN [k EXCEPT !.daily_loss = 0, !.last_reset_date = k.today]
    ELSE k

\* update_domestic_positions(): the loop over output2, in the order of the list.
\* An item with a zero purchase price raises ZeroDivisionError.
RECURSIVE load_positions(_, _, _, _)
load_positions(account, prpr, i, positions) ==
    IF i > Len(DomesticSymbols)
    THEN [positions |-> positions, raised |-> FALSE]
    ELSE LET symbol == DomesticSymbols[i]
             item   == account[symbol]
         IN IF item.quantity > 0
            THEN IF item.avg_price = 0
                 THEN [positions |-> positions, raised |-> TRUE]
                 ELSE load_positions(account, prpr, i + 1,
                        [s \in DOMAIN positions \cup {symbol} |->
                           IF s = symbol
                           THEN KisPosition(symbol, item.quantity, item.avg_price, prpr[symbol])
                           ELSE positions[s]])
            ELSE load_positions(account, prpr, i + 1, positions)

\* the symbols of output2 with hldg_qty > 0: the items whose prpr is read
Held(account) == {s \in DomesticSet : account[s].quantity > 0}

\* update_domestic_positions()
update_domestic_positions(k) ==
    \* get_account_balance() raises: self.positions is not touched
    {KOut(k, FALSE, "raise")}
    \cup
    \* the answer is an error body without output2
    {KOut([k EXCEPT !.positions = NoPositions], TRUE, "ok")}
    \cup
    {LET r == load_positions(k.account, prpr, 1, NoPositions)
     IN KOut([k EXCEPT !.positions = r.positions], ~r.raised,
             IF r.raised THEN "raise" ELSE "ok")
     : prpr \in [Held(k.account) -> HoldingPrices]}

\* The exchange executes an accepted domestic order at price p.
KisExecute(account, symbol, type, quantity, p) ==
    IF type = "buy"
    THEN LET old == account[symbol]
             nq  == old.quantity + quantity
         IN [account EXCEPT ![symbol] =
                [quantity |-> nq,
                 avg_price |-> (old.quantity * old.avg_price + quantity * p) \div nq]]
    ELSE [account EXCEPT ![symbol].quantity = @ - quantity]

\* buy_domestic_stock(symbol, 0, quantity)
buy_domestic_stock(k, symbol, quantity) ==
    \* order_domestic_stock() raises
    {KOut([k EXCEPT !.log = Append(@, Submitted(k, "buy", symbol, quantity, FALSE)),
                    !.notes = @ \cup {"error"}], FALSE, "ok"),
    \* the answer carries no order number
     KOut([k EXCEPT !.log = Append(@, Submitted(k, "buy", symbol, quantity, FALSE))],
          FALSE, "ok")}
    \cup
    IF k.n_orders >= MaxKisOrders
    THEN {}
    ELSE
    UNION {LET k1 == [k EXCEPT
                        !.log = Append(@, Submitted(k, "buy", symbol, quantity, TRUE)),
                        !.n_orders = @ + 1,
                        !.account = KisExecute(@, symbol, "buy", quantity, p),
                        !.trade_history =
                            Append(@, Trade(symbol, "buy", quantity, "domestic", "", 0)),
                        !.notes = @ \cup {"buy"}]
           IN {IF u.ctl = "ok"
               THEN KOut(u.k, TRUE, "ok")
               \* update_domestic_positions() raised into buy's except clause
               ELSE KOut([u.k EXCEPT !.notes = @ \cup {"error"}], FALSE, "ok")
               : u \in update_domestic_positions(k1)}
           : p \in ExecutionPrices}

\* sell_domestic_stock() with the profit taken from the order's price argument,
\* which is 0 for a market order, instead of the position's current price
sell_domestic_stock_at_order_price(k, symbol, quantity, reason) ==
    {KOut([k EXCEPT !.log = Append(@, Submitted(k, "sell", symbol, quantity, FALSE)),
                    !.notes = @ \cup {"error"}], FALSE, "ok"),
     KOut([k EXCEPT !.log = Append(@, Submitted(k, "sell", symbol, quantity, FALSE))],
          FALSE, "ok")}
    \cup
    IF k.account[symbol].quantity < quantity \/ k.n_orders >= MaxKisOrders
    THEN {}
    ELSE
      LET held == symbol \in DOMAIN k.positions
          pct  == IF held THEN profit_percent(k.positions[symbol].avg_price, 0) ELSE 0
          loss_amount ==
              IF held /\ pct < 0
              THEN Abs(0 - k.positions[symbol].avg_price) * quantity
              ELSE 0
          k1 == [k EXCEPT
                   !.log = Append(@, Submitted(k, "sell", symbol, quantity, TRUE)),
                   !.n_orders = @ + 1,
                   !.account = KisExecute(@, symbol, "sell", quantity, 0),
                   !.daily_loss = @ + loss_amount,
                   !.trade_history =
                       Append(@, Trade(symbol, "sell", quantity, "domestic", reason, pct))]
      IN IF ~held
         THEN {KOut([k1 EXCEPT !.notes = @ \cup {"error"}], FALSE, "ok")}
         ELSE {IF u.ctl = "ok"
               THEN KOut(u.k, TRUE, "ok")
               ELSE KOut([u.k EXCEPT !.notes = @ \cup {"error"}], FALSE, "ok")
               : u \in update_domestic_positions([k1 EXCEPT !.notes = @ \cup {"sell"}])}

\* sell_domestic_stock() that adds the signed difference of the prices, without abs()
sell_domestic_stock_signed_loss(k, symbol, quantity, reason) ==
    {KOut([k EXCEPT !.log = Append(@, Submitted(k, "sell", symbol, quantity, FALSE)),
                    !.notes = @ \cup {"error"}], FALSE, "ok"),
     KOut([k EXCEPT !.log = Append(@, Submitted(k, "sell", symbol, quantity, FALSE))],
          FALSE, "ok")}
    \cup
    IF k.account[symbol].quantity < quantity \/ k.n_orders >= MaxKisOrders
    THEN {}
    ELSE
      LET held == symbol \in DOMAIN k.positions
          pct  == IF held THEN k.positions[symbol].profit_percent ELSE 0
          loss_amount ==
              IF held /\ pct < 0
              THEN (k.positions[symbol].current_price - k.positions[symbol].avg_price)
                     * quantity
              ELSE 0
          k1 == [k EXCEPT
                   !.log = Append(@, Submitted(k, "sell", symbol, quantity, TRUE)),
                   !.n_orders = @ + 1,
                   !.account = KisExecute(@, symbol, "sell", quantity, 0),
                   !.daily_loss = @ + loss_amount,
                   !.trade_history =
                       Append(@, Trade(symbol, "sell", quantity, "domestic", reason, pct))]
      IN IF ~held
         \* the notification reads self.positions[symbol]: KeyError
         THEN {KOut([k1 EXCEPT !.notes = @ \cup {"error"}], FALSE, "ok")}
         ELSE {IF u.ctl = "ok"
               THEN KOut(u.k, TRUE, "ok")
               ELSE KOut([u.k EXCEPT !.notes = @ \cup {"error"}], FALSE, "ok")
               : u \in update_domestic_positions([k1 EXCEPT !.notes = @ \cup {"sell"}])}

\* sell_domestic_stock(symbol, quantity, reason=reason)
sell_domestic_stock(k, symbol, quantity, reason) ==
    {KOut([k EXCEPT !.log = Append(@, Submitted(k, "sell", symbol, quantity, FALSE)),
                    !.notes = @ \cup {"error"}], FALSE, "ok"),
     KOut([k EXCEPT !.log = Append(@, Submitted(k, "sell", symbol, quantity, FALSE))],
          FALSE, "ok")}
    \cup
    IF k.account[symbol].quantity < quantity \/ k.n_orders >= MaxKisOrders
    THEN {}
    ELSE
      LET held == symbol \in DOMAIN k.positions
          pct  == IF held THEN k.positions[symbol].profit_percent ELSE 0
          loss_amount ==
              IF held /\ pct < 0
              THEN Abs(k.positions[symbol].current_price - k.positions[symbol].avg_price)
                     * quantity
              ELSE 0
          k1 == [k EXCEPT
                   !.log = Append(@, Submitted(k, "sell", symbol, quantity, TRUE)),
                   !.n_orders = @ + 1,
                   !.account = KisExecute(@, symbol, "sell", quantity, 0),
                   !.daily_loss = @ + loss_amount,
                   !.trade_history =
                       Append(@, Trade(symbol, "sell", quantity, "domestic", reason, pct))]
      IN IF ~held
         \* the notification reads self.positions[symbol]: KeyError
         THEN {KOut([k1 EXCEPT !.notes = @ \cup {"error"}], FALSE, "ok")}
         ELSE {IF u.ctl = "ok"
               THEN KOut(u.k, TRUE, "ok")
               ELSE KOut([u.k EXCEPT !.notes = @ \cup {"error"}], FALSE, "ok")
               : u \in update_domestic_positions([k1 EXCEPT !.notes = @ \cup {"sell"}])}

\* check_stop_loss() with a strict comparison: a position exactly at the
\* threshold is kept
RECURSIVE check_stop_loss_below(_, _, _)
check_stop_loss_below(k, items, i) ==
    IF i > Len(DomesticSymbols)
    THEN {k}
    ELSE LET symbol == DomesticSymbols[i]
         IN IF symbol \in DOMAIN items /\ items[symbol].profit_percent < -stop_loss_percent
            THEN UNION {check_stop_loss_below(o.k, items, i + 1)
                        : o \in sell_domestic_stock(k, symbol, items[symbol].quantity,
                                                    "stop_loss")}
            ELSE check_stop_loss_below(k, items, i + 1)

\* check_stop_loss(): the loop over list(self.positions.items()), the entries
\* as they were when the loop began
RECURSIVE check_stop_loss_from(_, _, _)
check_stop_loss_from(k, items, i) ==
    IF i > Len(DomesticSymbols)
    THEN {k}
    ELSE LET symbol == DomesticSymbols[i]
         IN IF symbol \in DOMAIN items /\ items[symbol].profit_percent <= -stop_loss_percent
            THEN UNION {check_stop_loss_from(o.k, items, i + 1)
                        : o \in sell_domestic_stock(k, symbol, items[symbol].quantity,
                                                    "stop_loss")}
            ELSE check_stop_loss_from(k, items, i + 1)

\* check_stop_loss()
check_stop_loss(k) ==
    check_stop_loss_from([k EXCEPT !.checked = TRUE, !.items = k.positions], k.positions, 1)

\* analyze_domestic_stock() / analyze_overseas_stock(): the call raises, or it
\* answers with the signals and the price
Analyses ==
    {[signal |-> "raise", price |-> 0], [signal |-> "none", price |-> 0]}
    \cup {[signal |-> g, price |-> p] : g \in {"buy", "strong_buy"}, p \in AnalysisPrices}

\* int(max_investment_per_trade / price) and int((max_investment_per_trade * 0.5) / price)
order_quantity(signal, price) ==
    IF signal = "strong_buy"
    THEN max_investment_per_trade \div price
    ELSE max_investment_per_trade \div (2 * price)

\* run_domestic_trading_strategy(): for symbol in symbols
RECURSIVE domestic_signals(_, _)
domestic_signals(k, i) ==
    IF i > Len(DomesticSymbols)
    THEN {k}
    ELSE LET symbol == DomesticSymbols[i]
         IN IF symbol \in DOMAIN k.positions
            THEN domestic_signals(k, i + 1)
            ELSE UNION {IF a.signal \in {"buy", "strong_buy"}
                           /\ order_quantity(a.signal, a.price) > 0
                        THEN UNION {domestic_signals(o.k, i + 1)
                                    : o \in buy_domestic_stock(
                                               k, symbol, order_quantity(a.signal, a.price))}
                        ELSE domestic_signals(k, i + 1)
                        : a \in Analyses}

\* run_domestic_trading_strategy() with the loss limit tested before the
\* stop-loss check
run_domestic_limit_first(k) ==
    LET k0 == reset_daily_stats(StartRun(k))
    IN UNION {IF u.ctl = "raise"
              THEN {KOut(u.k, FALSE, "raise")}
              ELSE IF u.k.daily_loss >= max_daily_loss
                   THEN {KOut([u.k EXCEPT !.notes = @ \cup {"daily_loss_limit"}], TRUE, "ok")}
                   ELSE UNION {{KOut(b, TRUE, "ok") : b \in domestic_signals(s, 1)}
                               : s \in check_stop_loss(u.k)}
              : u \in update_domestic_positions(k0)}

\* run_domestic_trading_strategy(symbols)
run_domestic_trading_strategy(k) ==
    LET k0 == reset_daily_stats(StartRun(k))
    IN UNION {IF u.ctl = "raise"
              THEN {KOut(u.k, FALSE, "raise")}
              ELSE UNION {IF s.daily_loss >= max_daily_loss
                          THEN {KOut([s EXCEPT !.notes = @ \cup {"daily_loss_limit"}],
                                     TRUE, "ok")}
                          ELSE {KOut(b, TRUE, "ok") : b \in domestic_signals(s, 1)}
                          : s \in check_stop_loss(u.k)}
              : u \in update_domestic_positions(k0)}

\* buy_overseas_stock(symbol, market, quantity)
buy_overseas_stock(k, symbol, quantity) ==
    {KOut([k EXCEPT !.log = Append(@, Submitted(k, "buy", symbol, quantity, FALSE)),
                    !.notes = @ \cup {"error"}], FALSE, "ok"),
     KOut([k EXCEPT !.log = Append(@, Submitted(k, "buy", symbol, quantity, FALSE))],
          FALSE, "ok")}
    \cup
    IF k.n_orders >= MaxKisOrders
    THEN {}
    ELSE {KOut([k EXCEPT !.log = Append(@, Submitted(k, "buy", symbol, quantity, TRUE)),
                         !.n_orders = @ + 1,
                         !.trade_history =
                             Append(@, Trade(symbol, "buy", quantity, "overseas", "", 0)),
                         !.notes = @ \cup {"buy"}], TRUE, "ok")}

\* run_overseas_trading_strategy(): for item in symbols
RECURSIVE overseas_signals(_, _)
overseas_signals(k, i) ==
    IF i > Len(OverseasSymbols)
    THEN {k}
    ELSE UNION {IF a.signal \in {"buy", "strong_buy"}
                   /\ order_quantity(a.signal, a.price) > 0
                THEN UNION {overseas_signals(o.k, i + 1)
                            : o \in buy_overseas_stock(
                                       k, OverseasSymbols[i],
                                       order_quantity(a.signal, a.price))}
                ELSE overseas_signals(k, i + 1)
                : a \in Analyses}

\* run_overseas_trading_strategy(symbols)
run_overseas_trading_strategy(k) ==
    LET k0 == reset_daily_stats(StartRun(k))
    IN IF k0.daily_loss >= max_daily_loss
       THEN {KOut([k0 EXCEPT !.notes = @ \cup {"daily_loss_limit"}], TRUE, "ok")}
       ELSE {KOut(b, TRUE, "ok") : b \in overseas_signals(k0, 1)}

\* ------------------------------------------------ TradingManager.run_trading
\* while True: the domestic strategy run; an exception goes to the except
\* clause, which sleeps
KisRunDomestic ==
    /\ kis.pc = "domestic"
    /\ kis.runs < MaxRuns
    /\ \E o \in run_domestic_trading_strategy(kis) :
          kis' = [o.k EXCEPT !.runs = @ + 1,
                             !.pc = IF o.ctl = "ok" THEN "overseas" ELSE "sleep"]
    /\ UNCHANGED <<position, top_volume_coins, elapsed, loop_count, pc, ex, n_external,
                   realized_loss, ev, notifier, sent, api, analysis>>

\* the overseas strategy run, only during the night hours
KisRunOverseas ==
    /\ kis.pc = "overseas"
    /\ \/ \E o \in run_overseas_trading_strategy(kis) : kis' = [o.k EXCEPT !.pc = "sleep"]
       \/ kis' = [kis EXCEPT !.pc = "sleep"]
    /\ UNCHANGED <<position, top_volume_coins, elapsed, loop_count, pc, ex, n_external,
                   realized_loss, ev, notifier, sent, api, analysis>>

\* time.sleep(self.interval): midnight may pass
KisSleep ==
    /\ kis.pc = "sleep"
    /\ \E t \in {kis.today, kis.today + 1} :
          /\ t <= MaxDays
          /\ kis' = [kis EXCEPT !.pc = "domestic", !.today = t]
    /\ UNCHANGED <<position, top_volume_coins, elapsed, loop_count, pc, ex, n_external,
                   realized_loss, ev, notifier, sent, api, analysis>>

\* KisTrader.__init__ with the account as it is at start-up
KisTraderInit(account) ==
    [positions |-> NoPositions, trade_history |-> <<>>, daily_loss |-> 0,
     last_reset_date |-> 0, today |-> 0, account |-> account,
     n_orders |-> 0, log |-> <<>>, notes |-> {}, checked |-> FALSE, items |-> NoPositions,
     runs |-> 0, pc |-> "domestic", ret |-> "None"]

KisNoHolding == [quantity |-> 0, avg_price |-> 0]
\* The account at start-up: empty, forty shares bought at 50000, or one share
\* with no purchase price next to them.
KisInitialAccounts ==
    {[s \in DomesticSet |-> KisNoHolding],
     [s \in DomesticSet |-> IF s = "005930" THEN [quantity |-> 40, avg_price |-> 50000]
                                            ELSE KisNoHolding],
     [s \in DomesticSet |-> IF s = "005930" THEN [quantity |-> 40, avg_price |-> 50000]
                                            ELSE [quantity |-> 1, avg_price |-> 0]]}

\* ------------------------------------------------- the trader's own methods
\* The methods of KisTrader called one by one, on a trader whose positions were
\* loaded by update_domestic_positions().
\* The prices at which the holdings are quoted then: below, at and above the
\* purchase price.  A holding without a purchase price stops the loading.
ExitPrices == {48500, 50000, 51000}

\* the holdings of the account at that time
LedgerAccounts ==
    [DomesticSet -> {KisNoHolding, [quantity |-> 1, avg_price |-> 50000],
                     [quantity |-> 40, avg_price |-> 50000],
                     [quantity |-> 1, avg_price |-> 0]}]

\* buy_domestic_stock(symbol, 0, 1)
ManualBuy ==
    /\ \E symbol \in DomesticSet :
         \E o \in buy_domestic_stock(StartRun(kis), symbol, 1) :
            kis' = [o.k EXCEPT !.pc = "bought", !.ret = o.ret]
    /\ UNCHANGED <<position, top_volume_coins, elapsed, loop_count, pc, ex, n_external,
                   realized_loss, ev, notifier, sent, api, analysis>>

\* sell_domestic_stock(symbol, quantity) for a position, all of it
ManualSell ==
    /\ \E symbol \in DOMAIN kis.positions :
         \E o \in sell_domestic_stock(StartRun(kis), symbol,
                                      kis.positions[symbol].quantity, "manual") :
            kis' = [o.k EXCEPT !.pc = "sold", !.ret = o.ret]
    /\ UNCHANGED <<position, top_volume_coins, elapsed, loop_count, pc, ex, n_external,
                   realized_loss, ev, notifier, sent, api, analysis>>

\* update_domestic_positions()
UpdatePositions ==
    /\ \E o \in update_domestic_positions(StartRun(kis)) :
          kis' = [o.k EXCEPT !.pc = IF o.ctl = "ok" THEN "updated" ELSE "update_raised"]
    /\ UNCHANGED <<position, top_volume_coins, elapsed, loop_count, pc, ex, n_external,
                   realized_loss, ev, notifier, sent, api, analysis>>

\* reset_daily_stats()
ResetDailyStats ==
    /\ kis' = [reset_daily_stats(kis) EXCEPT !.pc = "reset"]
    /\ UNCHANGED <<position, top_volume_coins, elapsed, loop_count, pc, ex, n_external,
                   realized_loss, ev, notifier, sent, api, analysis>>

\* datetime.datetime.now().date(): midnight passes
DayPasses ==
    /\ kis.today < MaxDays
    /\ kis' = [kis EXCEPT !.today = @ + 1, !.pc = "midnight"]
    /\ UNCHANGED <<position, top_volume_coins, elapsed, loop_count, pc, ex, n_external,
                   realized_loss, ev, notifier, sent, api, analysis>>

\* ========================================================= TelegramNotifier
\* telegram.quiet_hours.start and .end: the default, which passes midnight, and
\* a period within one day
QuietHours == {[start |-> "22:00", end |-> "08:00"], [start |-> "12:00", end |-> "13:00"]}

\* datetime.strptime(s, '%H:%M').time(), as minutes since midnight
ParseTime(s) ==
    CASE s = "08:00" -> 480
      [] s = "12:00" -> 720
      [] s = "13:00" -> 780
      [] s = "22:00" -> 1320

\* datetime.now().time(), as minutes since midnight: 01:00, 08:00, 10:00, 12:30,
\* 22:00, 23:00
TimesOfDay == {60, 480, 600, 750, 1320, 1380}

\* what requests.post() does: the status code of its response, or the
\* exception it raises
Responses == {"200", "400", "RequestException", "Exception"}

\* TelegramNotifier.__init__
TelegramNotifierInit(enabled, hours) ==
    [enabled |-> enabled, quiet_start |-> hours.start, quiet_end |-> hours.end,
     is_shutdown_message |-> FALSE]

\* _is_quiet_time()
is_quiet_time(n, now) ==
    IF n.is_shutdown_message
    THEN FALSE
    ELSE LET quiet_start == ParseTime(n.quiet_start)
             quiet_end   == ParseTime(n.quiet_end)
         IN IF quiet_start > quiet_end
            THEN now >= quiet_start \/ now <= quiet_end
            ELSE quiet_start <= now /\ now <= quiet_end

\* what a call of send_message() ends in: the notifier after it, whether
\* requests.post() was called and with what response, the value returned, and
\* whether an exception left the call
Sent(n, posted, response, ret, raised) ==
    [notifier |-> n, posted |-> posted, response |-> response, ret |-> ret, raised |-> raised]

\* send_message() without the except clauses around requests.post()
send_message_uncaught(n, is_shutdown, now) ==
    IF ~n.enabled
    THEN {Sent(n, FALSE, "none", FALSE, FALSE)}
    ELSE LET n1 == [n EXCEPT !.is_shutdown_message = is_shutdown]
         IN IF is_quiet_time(n1, now) /\ ~is_shutdown
            THEN {Sent(n1, FALSE, "none", FALSE, FALSE)}
            ELSE {Sent(n1, TRUE, r, r = "200", r \in {"RequestException", "Exception"})
                  : r \in Responses}

\* send_message(message, is_shutdown)
send_message(n, is_shutdown, now) ==
    IF ~n.enabled
    THEN {Sent(n, FALSE, "none", FALSE, FALSE)}
    ELSE LET n1 == [n EXCEPT !.is_shutdown_message = is_shutdown]
         IN IF is_quiet_time(n1, now) /\ ~is_shutdown
            THEN {Sent(n1, FALSE, "none", FALSE, FALSE)}
            ELSE {Sent(n1, TRUE, r, r = "200", FALSE) : r \in Responses}

\* the record sent: the kind of the message ("none": no message was given to
\* the notifier), the time of day, and the outcome of send_message()
Message(kind, now, o) ==
    [kind |-> kind, now |-> now, posted |-> o.posted, response |-> o.response,
     ret |-> o.ret, raised |-> o.raised]

NoMessage ==
    [kind |-> "none", now |-> 0, posted |-> FALSE, response |-> "none",
     ret |-> FALSE, raised |-> FALSE]

\* ------------------------------------------------------------------ UpbitAPI
\* the status codes of the exchange's error responses
Statuses == {400, 401, 404, 429, 500, 503}

\* UpbitAPI.__init__: notifier is None unless the caller passes one.  process:
\* "running", or the exit code of sys.exit()
UpbitAPIInit(has_notifier) ==
    [notifier |-> has_notifier, status |-> 0, result |-> "none", process |-> "running"]

\* _handle_api_error(operation, status_code, response_text)
handle_api_error(a, n, status_code, now) ==
    IF status_code >= 500 \/ status_code = 401
    THEN IF a.notifier
         THEN {[api |-> [a EXCEPT !.status = status_code, !.result = "none",
                                  !.process = "exit1"],
                notifier |-> o.notifier, sent |-> Message("fatal", now, o)]
               : o \in send_message(n, FALSE, now)}
         ELSE {[api |-> [a EXCEPT !.status = status_code, !.result = "none",
                                  !.process = "exit1"],
                notifier |-> n, sent |-> NoMessage]}
    ELSE {[api |-> [a EXCEPT !.status = status_code, !.result = "{}"],
           notifier |-> n, sent |-> NoMessage]}

\* A trading operation notifies (send_trade_notification, send_system_notification)
\* and goes on with whatever send_message() returns.
TraderNotifies ==
    /\ api.process = "running"
    /\ \E now \in TimesOfDay : \E o \in send_message(notifier, FALSE, now) :
          /\ notifier' = o.notifier
          /\ sent' = Message("trade", now, o)
          /\ api' = [api EXCEPT !.status = 0, !.result = "none"]
    /\ UNCHANGED <<position, top_volume_coins, elapsed, loop_count, pc, ex, n_external,
                   realized_loss, ev, kis, analysis>>

\* A request to the exchange is answered with an error status.
ApiError ==
    /\ api.process = "running"
    /\ \E now \in TimesOfDay, status_code \in Statuses :
          \E o \in handle_api_error(api, notifier, status_code, now) :
             /\ api' = o.api
             /\ notifier' = o.notifier
             /\ sent' = o.sent
    /\ UNCHANGED <<position, top_volume_coins, elapsed, loop_count, pc, ex, n_external,
                   realized_loss, ev, kis, analysis>>

\* _signal_handler() with a cancellation of a waiting order before the exit
SignalHandlerCancelling ==
    /\ api.process = "running"
    /\ \E now \in TimesOfDay : \E o \in send_message(notifier, TRUE, now) :
          /\ notifier' = o.notifier
          /\ sent' = Message("shutdown", now, o)
          /\ api' = [api EXCEPT !.status = 0, !.result = "none", !.process = "exit0"]
    /\ ex' = IF WaitOrders(ex) = {} THEN ex
             ELSE Cancel(ex, CHOOSE u \in WaitOrders(ex) : TRUE)
    /\ UNCHANGED <<position, top_volume_coins, elapsed, loop_count, pc, n_external,
                   realized_loss, ev, kis, analysis>>

\* TradingManager._signal_handler(): SIGINT or SIGTERM
SignalHandler ==
    /\ api.process = "running"
    /\ \E now \in TimesOfDay : \E o \in send_message(notifier, TRUE, now) :
          /\ notifier' = o.notifier
          /\ sent' = Message("shutdown", now, o)
          /\ api' = [api EXCEPT !.status = 0, !.result = "none", !.process = "exit0"]
    /\ UNCHANGED <<position, top_volume_coins, elapsed, loop_count, pc, ex, n_external,
                   realized_loss, ev, kis, analysis>>

\* ================================================ generate_signals (analyzers)
\* The values of the last two rows: the RSI around its two thresholds, and two
\* levels for MACD, its signal line and the moving averages.
RsiValues == {29, 30, 31, 69, 70, 71}
Levels == {1, 2}
Rows == [rsi : RsiValues, macd : Levels, macd_signal : Levels, ma5 : Levels, ma20 : Levels]
\* df.iloc[-2]: its RSI is never read
PreviousRows == {r \in Rows : r.rsi = 31}

NoSignals == [buy |-> FALSE, sell |-> FALSE, strong_buy |-> FALSE, strong_sell |-> FALSE]

\* The value of an indicator whose window is not filled yet (float NaN), and the
\* comparisons of floats: every comparison with NaN is false.
NaN == -1
Lt(a, b) == a # NaN /\ b # NaN /\ a < b
Gt(a, b) == a # NaN /\ b # NaN /\ a > b
Le(a, b) == a # NaN /\ b # NaN /\ a <= b
Ge(a, b) == a # NaN /\ b # NaN /\ a >= b

\* generate_signals() with the three rules in one if/elif chain: the first rule
\* that holds decides
generate_signals_first_rule(current, previous) ==
    LET s1 == IF current.rsi < 30 THEN [NoSignals EXCEPT !.buy = TRUE]
              ELSE IF current.rsi > 70 THEN [NoSignals EXCEPT !.sell = TRUE]
              ELSE IF current.macd > current.macd_signal
                      /\ previous.macd <= previous.macd_signal
                   THEN [NoSignals EXCEPT !.buy = TRUE]
              ELSE IF current.macd < current.macd_signal
                      /\ previous.macd >= previous.macd_signal
                   THEN [NoSignals EXCEPT !.sell = TRUE]
              ELSE IF current.ma5 > current.ma20 /\ previous.ma5 <= previous.ma20
                   THEN [NoSignals EXCEPT !.buy = TRUE]
              ELSE IF current.ma5 < current.ma20 /\ previous.ma5 >= previous.ma20
                   THEN [NoSignals EXCEPT !.sell = TRUE]
              ELSE NoSignals
        s2 == IF current.rsi < 30 /\ current.macd > current.macd_signal
                 /\ current.ma5 > current.ma20
              THEN [s1 EXCEPT !.strong_buy = TRUE] ELSE s1
    IN IF current.rsi > 70 /\ current.macd < current.macd_signal
          /\ current.ma5 < current.ma20
       THEN [s2 EXCEPT !.strong_sell = TRUE] ELSE s2

\* generate_signals() with the strong signals taken from the crossings
generate_signals_strong_on_cross(current, previous) ==
    LET s1 == IF current.rsi < 30 THEN [NoSignals EXCEPT !.buy = TRUE]
              ELSE IF current.rsi > 70 THEN [NoSignals EXCEPT !.sell = TRUE]
              ELSE NoSignals
        s2 == IF current.macd > current.macd_signal /\ previous.macd <= previous.macd_signal
              THEN [s1 EXCEPT !.buy = TRUE]
              ELSE IF current.macd < current.macd_signal
                      /\ previous.macd >= previous.macd_signal
                   THEN [s1 EXCEPT !.sell = TRUE]
              ELSE s1
        s3 == IF current.ma5 > current.ma20 /\ previous.ma5 <= previous.ma20
              THEN [s2 EXCEPT !.buy = TRUE]
              ELSE IF current.ma5 < current.ma20 /\ previous.ma5 >= previous.ma20
                   THEN [s2 EXCEPT !.sell = TRUE]
              ELSE s2
        s4 == IF current.rsi < 30
                 /\ current.macd > current.macd_signal /\ previous.macd <= previous.macd_signal
                 /\ current.ma5 > current.ma20 /\ previous.ma5 <= previous.ma20
              THEN [s3 EXCEPT !.strong_buy = TRUE] ELSE s3
    IN IF current.rsi > 70
          /\ current.macd < current.macd_signal /\ previous.macd >= previous.macd_signal
          /\ current.ma5 < current.ma20 /\ previous.ma5 >= previous.ma20
       THEN [s4 EXCEPT !.strong_sell = TRUE] ELSE s4

\* generate_signals() without the RSI rule: buy and sell come from the crossings
\* only
generate_signals_crossings_only(current, previous) ==
    LET s2 == IF current.macd > current.macd_signal /\ previous.macd <= previous.macd_signal
              THEN [NoSignals EXCEPT !.buy = TRUE]
              ELSE IF current.macd < current.macd_signal
                      /\ previous.macd >= previous.macd_signal
                   THEN [NoSignals EXCEPT !.sell = TRUE]
              ELSE NoSignals
        s3 == IF current.ma5 > current.ma20 /\ previous.ma5 <= previous.ma20
              THEN [s2 EXCEPT !.buy = TRUE]
              ELSE IF current.ma5 < current.ma20 /\ previous.ma5 >= previous.ma20
                   THEN [s2 EXCEPT !.sell = TRUE]
              ELSE s2
        s4 == IF current.rsi < 30 /\ current.macd > current.macd_signal
                 /\ current.ma5 > current.ma20
              THEN [s3 EXCEPT !.strong_buy = TRUE] ELSE s3
    IN IF current.rsi > 70 /\ current.macd < current.macd_signal
          /\ current.ma5 < current.ma20
       THEN [s4 EXCEPT !.strong_sell = TRUE] ELSE s4

\* generate_signals(df), of UpbitAnalyzer and of KisAnalyzer alike: current is
\* df.iloc[-1], previous is df.iloc[-2]
\* s1: the RSI rule; s2: the MACD rule; s3: the moving-average rule; s4 and the
\* result: the strong signals.
generate_signals(current, previous) ==
    LET s1 == IF Lt(current.rsi, 30) THEN [NoSignals EXCEPT !.buy = TRUE]
              ELSE IF Gt(current.rsi, 70) THEN [NoSignals EXCEPT !.sell = TRUE]
              ELSE NoSignals
        s2 == IF Gt(current.macd, current.macd_signal)
                 /\ Le(previous.macd, previous.macd_signal)
              THEN [s1 EXCEPT !.buy = TRUE]
              ELSE IF Lt(current.macd, current.macd_signal)
                      /\ Ge(previous.macd, previous.macd_signal)
                   THEN [s1 EXCEPT !.sell = TRUE]
              ELSE s1
        s3 == IF Gt(current.ma5, current.ma20) /\ Le(previous.ma5, previous.ma20)
              THEN [s2 EXCEPT !.buy = TRUE]
              ELSE IF Lt(current.ma5, current.ma20) /\ Ge(previous.ma5, previous.ma20)
                   THEN [s2 EXCEPT !.sell = TRUE]
              ELSE s2
        s4 == IF Lt(current.rsi, 30) /\ Gt(current.macd, current.macd_signal)
                 /\ Gt(current.ma5, current.ma20)
              THEN [s3 EXCEPT !.strong_buy = TRUE] ELSE s3
    IN IF Gt(current.rsi, 70) /\ Lt(current.macd, current.macd_signal)
          /\ Lt(current.ma5, current.ma20)
       THEN [s4 EXCEPT !.strong_sell = TRUE] ELSE s4

\* analysis before any table was analysed
NoAnalysis ==
    [current |-> [rsi |-> 0, macd |-> 0, macd_signal |-> 0, ma5 |-> 0, ma20 |-> 0],
     previous |-> [rsi |-> 0, macd |-> 0, macd_signal |-> 0, ma5 |-> 0, ma20 |-> 0],
     signals |-> NoSignals, done |-> FALSE]

\* analyze_market() / analyze_domestic_stock(): 'signals': self.generate_signals(df)
Analyze ==
    /\ ~analysis.done
    /\ analysis' = [analysis EXCEPT
                      !.signals = generate_signals(analysis.current, analysis.previous),
                      !.done = TRUE]
    /\ UNCHANGED <<position, top_volume_coins, elapsed, loop_count, pc, ex, n_external,
                   realized_loss, ev, kis, notifier, sent, api>>

\* ------------------------------------------ analyze_domestic_stock (warm-up)
\* strategy.rsi_period
rsi_period == 14

\* The number of daily candles the exchange returns for a symbol: none, fewer
\* than calculate_rsi() needs, and numbers around the window of MA20.
CandleCounts == {0, 1, 14, 15, 19, 20, 21}

\* Series.rolling(window).mean() at one row of the table
rolling_mean(window, index, value) == IF index >= window - 1 THEN value ELSE NaN

\* The row at an index of the table after calculate_rsi(), calculate_macd() and
\* calculate_moving_averages(): RSI takes the rolling mean of rsi_period
\* changes, the exponential averages of MACD are defined from the first row, the
\* moving averages from the row that fills their window.
indicator_row(index, values) ==
    [rsi |-> rolling_mean(rsi_period, index, values.rsi),
     macd |-> values.macd,
     macd_signal |-> values.macd_signal,
     ma5 |-> rolling_mean(5, index, values.ma5),
     ma20 |-> rolling_mean(20, index, values.ma20)]

\* analyze_domestic_stock(symbol) over a table of n candles: an empty table has
\* no 'close' column (KeyError), a table of at most rsi_period rows has no row
\* rsi_period to seed the averages in (IndexError); both are logged and raised
\* again.
analyze_domestic_stock(n, current, previous) ==
    IF n = 0 \/ n <= rsi_period
    THEN [raised |-> TRUE, current |-> current, previous |-> previous,
          signals |-> NoSignals]
    ELSE LET cur == indicator_row(n - 1, current)
             prev == indicator_row(n - 2, previous)
         IN [raised |-> FALSE, current |-> cur, previous |-> prev,
             signals |-> generate_signals(cur, prev)]

\* One pass of the loop of run_domestic_trading_strategy() for a symbol that is
\* not held: the analysis, then the order it decides on; an exception is logged
\* and the loop goes on with the next symbol.
EvaluateSymbol ==
    /\ ~analysis.done
    /\ LET r == analyze_domestic_stock(analysis.candles, analysis.current,
                                       analysis.previous)
       IN analysis' = [analysis EXCEPT
                         !.current = r.current,
                         !.previous = r.previous,
                         !.signals = r.signals,
                         !.raised = r.raised,
                         !.decision = IF r.raised THEN "skipped"
                                      ELSE IF r.signals.strong_buy THEN "strong_buy"
                                      ELSE IF r.signals.buy THEN "buy"
                                      ELSE "none",
                         !.done = TRUE]
    /\ UNCHANGED <<position, top_volume_coins, elapsed, loop_count, pc, ex, n_external,
                   realized_loss, ev, kis, notifier, sent, api>>

\* --------------------------------------------------------- calculate_rsi
\* The close prices of a table: they start at 100, change by a in each of the
\* first j steps and by b in each step after.
SeriesLengths == {14, 15, 20}
Steps == {-1, 0, 1}
Closes(n, a, b, j) ==
    [i \in 1..n |-> 100 + a * (IF i - 1 < j THEN i - 1 ELSE j)
                        + b * (IF i - 1 < j THEN 0 ELSE i - 1 - j)]

\* gain and loss at row i (rows count from 0, the sequence from 1): the
\* change of the close where it is positive, or negative; 0 otherwise and in
\* row 0, whose change is NaN
change(close, side, i) ==
    IF i = 0 THEN 0
    ELSE LET delta == close[i + 1] - close[i]
         IN IF side = "gain" THEN Max2(delta, 0) ELSE Max2(0 - delta, 0)

\* gain.iloc[1:period+1].mean(), times period
RECURSIVE seed_sum(_, _, _)
seed_sum(close, side, i) ==
    IF i = 0 THEN 0 ELSE seed_sum(close, side, i - 1) + change(close, side, i)

\* avg_gain.iloc[i] and avg_loss.iloc[i] for i >= period, times
\* period^(i - period + 1): the seed in row period, then
\* (avg.iloc[i-1] * (period-1) + value.iloc[i]) / period
RECURSIVE smoothed(_, _, _)
smoothed(close, side, i) ==
    IF i = rsi_period
    THEN seed_sum(close, side, rsi_period)
    ELSE smoothed(close, side, i - 1) * (rsi_period - 1)
           + change(close, side, i) * rsi_period ^ (i - rsi_period)

\* 100 - (100 / (1 + rs)) with rs = avg_gain / avg_loss, where the division by
\* a zero carries an unknown value
rsi_value_zero_loss_undefined(avg_gain, avg_loss) ==
    IF avg_loss = 0 THEN NaN ELSE (100 * avg_gain) \div (avg_gain + avg_loss)

\* 100 - (100 / (1 + rs)) with rs = avg_gain / avg_loss in floats, its whole
\* part: a positive avg_gain over a zero avg_loss is infinite, and 100 / (1 + rs)
\* is 0 then; zero over zero is NaN
rsi_value(avg_gain, avg_loss) ==
    IF avg_loss = 0
    THEN IF avg_gain = 0 THEN NaN ELSE 100
    ELSE (100 * avg_gain) \div (avg_gain + avg_loss)

\* df['rsi'] at row i.  gain and loss have a 0 in row 0, where the change is
\* NaN, so rolling(window=period).mean() has its first value in row period - 1:
\* the sum of rows 0..period-1 over period.  Row period is overwritten by the
\* seed, the rows after it by the smoothing loop.
rsi_row(close, i) ==
    IF i < rsi_period - 1 THEN NaN
    ELSE IF i = rsi_period - 1
    THEN rsi_value(seed_sum(close, "gain", i), seed_sum(close, "loss", i))
    ELSE rsi_value(smoothed(close, "gain", i), smoothed(close, "loss", i))

\* calculate_rsi(df): the RSI column, and the averages and the RSI of the
\* last row.  A table of at most period rows has no row to seed the averages
\* in (IndexError), and df['rsi'] is not assigned.
calculate_rsi(close) ==
    IF Len(close) <= rsi_period
    THEN [raised |-> TRUE, avg_gain |-> 0, avg_loss |-> 0, rsi |-> NaN,
          column |-> [i \in 0..(Len(close) - 1) |-> NaN]]
    ELSE LET last == Len(close) - 1
             g == smoothed(close, "gain", last)
             l == smoothed(close, "loss", last)
         IN [raised |-> FALSE, avg_gain |-> g, avg_loss |-> l, rsi |-> rsi_value(g, l),
             column |-> [i \in 0..last |-> rsi_row(close, i)]]

\* analyze_market() / analyze_domestic_stock(): df = self.calculate_rsi(df)
CalculateRsi ==
    /\ ~analysis.done
    /\ LET r == calculate_rsi(analysis.close)
       IN analysis' = [analysis EXCEPT !.raised = r.raised, !.avg_gain = r.avg_gain,
                                       !.avg_loss = r.avg_loss, !.rsi = r.rsi,
                                       !.column = r.column, !.done = TRUE]
    /\ UNCHANGED <<position, top_volume_coins, elapsed, loop_count, pc, ex, n_external,
                   realized_loss, ev, kis, notifier, sent, api>>

\* ---------------------------------------------------------- specification
\* What the account holds of a coin at start-up: nothing, a holding bought at
\* 110, or a holding with no purchase price (a deposit).
NoHolding == [balance |-> 0, avg_buy_price |-> 0]
InitialHoldings ==
    {[m \in Markets |-> NoHolding],
     [m \in Markets |-> IF m = "KRW-AAA" THEN [balance |-> 5000, avg_buy_price |-> 110]
                                          ELSE NoHolding],
     [m \in Markets |-> IF m = "KRW-BBB" THEN [balance |-> 5, avg_buy_price |-> 0]
                                          ELSE NoHolding]}

\* The Upbit trader runs with the KIS trader idle, and the other way round.
KisIdle == KisTraderInit([s \in DomesticSet |-> KisNoHolding])

\* The notifier, the API object and the analyzer as constructed, with nothing
\* sent, answered or analysed.
Quiet ==
    /\ notifier = TelegramNotifierInit(TRUE, [start |-> "22:00", end |-> "08:00"])
    /\ sent = NoMessage
    /\ api = UpbitAPIInit(FALSE)
    /\ analysis = NoAnalysis

\* Both traders before their first step.
TradersIdle ==
    /\ position = FlatPosition
    /\ top_volume_coins = <<>>
    /\ elapsed = [t \in Timers |-> 0]
    /\ loop_count = 0
    /\ pc = "start"
    /\ ex = [krw |-> 0, coins |-> [m \in Markets |-> NoHolding], orders |-> <<>>]
    /\ n_external = 0
    /\ realized_loss = 0
    /\ ev = NoEv
    /\ kis = KisIdle

Init ==
    /\ position = FlatPosition
    /\ top_volume_coins = <<>>
    /\ elapsed = [t \in Timers |-> 0]
    /\ loop_count = 0
    /\ pc = "start"
    /\ \E k \in InitialKRW, c \in InitialHoldings :
          ex = [krw |-> k, coins |-> c, orders |-> <<>>]
    /\ n_external = 0
    /\ realized_loss = 0
    /\ ev = NoEv
    /\ kis = KisIdle
    /\ Quiet

Next ==
    \/ InitialCheck
    \/ InitialPortfolio
    \/ LoopTop
    \/ Tick10s
    \/ Tick1mSignal
    \/ Tick1mCancel
    \/ Tick5mVolume
    \/ Tick5mPosition
    \/ Tick1h
    \/ ExchangeFill
    \/ ExternalBuy
    \/ ExternalSell

Spec == Init /\ [][Next]_vars

\* The KIS trader alone: run_trading() with platform 'kis'.
KisInit ==
    /\ position = FlatPosition
    /\ top_volume_coins = <<>>
    /\ elapsed = [t \in Timers |-> 0]
    /\ loop_count = 0
    /\ pc = "start"
    /\ ex = [krw |-> 0, coins |-> [m \in Markets |-> NoHolding], orders |-> <<>>]
    /\ n_external = 0
    /\ realized_loss = 0
    /\ ev = NoEv
    /\ \E a \in KisInitialAccounts : kis = KisTraderInit(a)
    /\ Quiet

KisNext ==
    \/ KisRunDomestic
    \/ KisRunOverseas
    \/ KisSleep

KisSpec == KisInit /\ [][KisNext]_vars

\* KisTrader's methods called one by one.
LedgerInit ==
    /\ position = FlatPosition
    /\ top_volume_coins = <<>>
    /\ elapsed = [t \in Timers |-> 0]
    /\ loop_count = 0
    /\ pc = "start"
    /\ ex = [krw |-> 0, coins |-> [m \in Markets |-> NoHolding], orders |-> <<>>]
    /\ n_external = 0
    /\ realized_loss = 0
    /\ ev = NoEv
    /\ \E a \in LedgerAccounts :
         \E prpr \in [Held(a) -> ExitPrices] :
            kis = [KisTraderInit(a) EXCEPT
                     !.positions = load_positions(a, prpr, 1, NoPositions).positions,
                     !.pc = "manual"]
    /\ Quiet

LedgerNext ==
    \/ UpdatePositions
    \/ ManualSell
    \/ ResetDailyStats
    \/ DayPasses

LedgerSpec == LedgerInit /\ [][LedgerNext]_vars

\* KisTrader's order methods called one by one.
OrderNext ==
    \/ ManualBuy
    \/ ManualSell

OrderSpec == LedgerInit /\ [][OrderNext]_vars

\* The notifier and the Upbit API object: telegram configured or not, either
\* quiet period, and the API object without a notifier, as UpbitTrader.__init__
\* constructs it, or with one.
NotifyInit ==
    /\ TradersIdle
    /\ \E enabled \in BOOLEAN, hours \in QuietHours :
          notifier = TelegramNotifierInit(enabled, hours)
    /\ sent = NoMessage
    /\ \E has_notifier \in BOOLEAN : api = UpbitAPIInit(has_notifier)
    /\ analysis = NoAnalysis

NotifyNext ==
    \/ TraderNotifies
    \/ ApiError
    \/ SignalHandler

NotifySpec == NotifyInit /\ [][NotifyNext]_vars

\* calculate_rsi() over tables of close prices.
RsiInit ==
    /\ TradersIdle
    /\ notifier = TelegramNotifierInit(TRUE, [start |-> "22:00", end |-> "08:00"])
    /\ sent = NoMessage
    /\ api = UpbitAPIInit(FALSE)
    /\ \E n \in SeriesLengths, a \in Steps, b \in Steps, j \in 0..19 :
          analysis = [close |-> Closes(n, a, b, j), raised |-> FALSE, avg_gain |-> 0,
                      avg_loss |-> 0, rsi |-> NaN, column |-> [i \in 0..(n - 1) |-> NaN],
                      done |-> FALSE]

RsiNext == CalculateRsi

RsiSpec == RsiInit /\ [][RsiNext]_vars

\* The account in the middle of run(): as at start-up, or with a buy order that
\* was not executed within the polling period and is still waiting.
OutstandingOrders(x) ==
    {x} \cup {Accept(x, m, "bid", buy_amount(x.krw))
              : m \in {n \in Markets : CanAccept(x, n, "bid", buy_amount(x.krw))}}

\* A termination signal arrives while the loop of run() is going.
ShutdownInit ==
    /\ position = FlatPosition
    /\ top_volume_coins = <<>>
    /\ elapsed = [t \in Timers |-> 0]
    /\ loop_count = 0
    /\ pc = "top"
    /\ \E k \in InitialKRW, c \in InitialHoldings :
          ex \in OutstandingOrders([krw |-> k, coins |-> c, orders |-> <<>>])
    /\ n_external = 0
    /\ realized_loss = 0
    /\ ev = NoEv
    /\ kis = KisIdle
    /\ \E enabled \in BOOLEAN, hours \in QuietHours :
          notifier = TelegramNotifierInit(enabled, hours)
    /\ sent = NoMessage
    /\ api = UpbitAPIInit(FALSE)
    /\ analysis = NoAnalysis

ShutdownNext ==
    \/ SignalHandler
    \/ ExchangeFill

ShutdownSpec == ShutdownInit /\ [][ShutdownNext]_vars

\* UpbitTrader's methods called one by one: the account as at start-up, with up
\* to two buy orders waiting on the exchange; the position as check_position()
\* leaves it; any ranking.
CallInit ==
    /\ top_volume_coins \in RankedLists
    /\ elapsed = [t \in Timers |-> 0]
    /\ loop_count = 0
    /\ pc = "top"
    /\ \E k \in InitialKRW, c \in InitialHoldings :
          ex \in UNION {OutstandingOrders(y)
                        : y \in OutstandingOrders(
                             [krw |-> k,
                              coins |-> [m \in ListedMarkets |->
                                           IF m \in Markets THEN c[m] ELSE NoHolding],
                              orders |-> <<>>])}
    /\ position \in {o.position : o \in {q \in check_position(FlatPosition, ex) : q.ctl = "ok"}}
    /\ n_external = 0
    /\ realized_loss = 0
    /\ ev = NoEv
    /\ kis = KisIdle
    /\ notifier = TelegramNotifierInit(TRUE, [start |-> "22:00", end |-> "08:00"])
    /\ sent = NoMessage
    /\ api = UpbitAPIInit(FALSE)
    /\ analysis = NoCall

CallNext ==
    \/ CallCheckSignal
    \/ CallBuy
    \/ CallSell
    \/ CallCancel
    \/ ExchangeFill

CallSpec == CallInit /\ [][CallNext]_vars

\* run() with a position open: the position as the initial check_position()
\* entered it from the account, or as a later check_position() has raised its
\* high-water mark.
WatchInit ==
    /\ top_volume_coins = <<>>
    /\ elapsed = [t \in Timers |-> 0]
    /\ loop_count = 0
    /\ pc = "top"
    /\ \E k \in InitialKRW, c \in InitialHoldings :
          ex = [krw |-> k, coins |-> c, orders |-> <<>>]
    /\ \E e \in Answered(check_position(FlatPosition, ex), {"entered"}) :
          position \in {e.position}
                       \cup {o.position : o \in Answered(check_position(e.position, ex),
                                                         {"priced"})}
    /\ n_external = 0
    /\ realized_loss = 0
    /\ ev = NoEv
    /\ kis = KisIdle
    /\ Quiet

WatchNext ==
    \/ WatchTop
    \/ Watch10s
    \/ Watch1m
    \/ Watch5m
    \/ Watch1h

\* run() is one thread: each of its steps is taken once it is reached.
WatchSpec == WatchInit /\ [][WatchNext]_vars /\ WF_vars(WatchNext)

\* generate_signals() over every pair of rows.
SignalInit ==
    /\ TradersIdle
    /\ notifier = TelegramNotifierInit(TRUE, [start |-> "22:00", end |-> "08:00"])
    /\ sent = NoMessage
    /\ api = UpbitAPIInit(FALSE)
    /\ \E current \in Rows, previous \in PreviousRows :
          analysis = [current |-> current, previous |-> previous,
                      signals |-> NoSignals, done |-> FALSE]

SignalNext == Analyze

SignalSpec == SignalInit /\ [][SignalNext]_vars

\* analyze_domestic_stock() and the order decision over tables of every length.
WarmupInit ==
    /\ TradersIdle
    /\ notifier = TelegramNotifierInit(TRUE, [start |-> "22:00", end |-> "08:00"])
    /\ sent = NoMessage
    /\ api = UpbitAPIInit(FALSE)
    /\ \E n \in CandleCounts, current \in Rows, previous \in PreviousRows :
          analysis = [candles |-> n, current |-> current, previous |-> previous,
                      signals |-> NoSignals, raised |-> FALSE, decision |-> "none",
                      done |-> FALSE]

WarmupNext == EvaluateSymbol

WarmupSpec == WarmupInit /\ [][WarmupNext]_vars

\* ================================================================ properties
\* C1: in every reachable state the trader holds at most one open position:
\* the Upbit position record names at most one market and the KIS positions
\* map has at most one entry.
C1_SinglePosition ==
    /\ position.market \in Markets \cup {""}
    /\ Cardinality(DOMAIN kis.positions) <= 1

\* An earlier buy order of the trader is still waiting on the exchange, or has
\* been executed there with its coins still on the account.
OwnBuyPending(x) ==
    \E u \in 1..Len(x.orders) :
        /\ x.orders[u].side = "bid"
        /\ \/ x.orders[u].state = "wait"
           \/ /\ x.orders[u].state = "done"
              /\ x.coins[x.orders[u].market].balance > 0

\* C2: the 1-minute signal check never submits a buy order while an earlier
\* buy order of the trader is still outstanding or has already been filled on
\* the exchange.
C2_NoSecondBuy ==
    [][(pc = "1m" /\ ev'.op = "buy" /\ ev'.submitted) => ~OwnBuyPending(ex)]_vars

\* C3: entering a position while one is open never succeeds: no step leads
\* from an open position to an open position of another market or another entry.
C3_NoReplacement ==
    [][(position.market # "" /\ position'.market # "")
       => (position'.market = position.market
           /\ position'.entry_price = position.entry_price)]_vars

\* A step keeps the high-water mark of a position that stays open, and a
\* reconciliation that read the current price did so with a position open and
\* left top_price at the larger of top_price and that price.
TopPriceStep ==
    /\ (position.market # "" /\ position'.market = position.market)
         => position'.top_price >= position.top_price
    /\ (pc \in {"start", "5m_position"} /\ ev'.result = "priced")
         => /\ position.market # ""
            /\ position'.top_price = Max2(position.top_price, ev'.price)

\* C4: while the position stays open its top_price never decreases; a
\* high-water update happens only with a position open and sets top_price to
\* max(top_price, current price).
C4_TopPriceMonotone == [][TopPriceStep]_vars

\* C4, its case: a reconciliation has read a current price above the entry
\* price and the high-water mark stands above the entry price.
C4_Witness ==
    /\ ev.op = "check_position"
    /\ ev.result = "priced"
    /\ position.market # ""
    /\ position.entry_price > 0
    /\ position.top_price = ev.price
    /\ position.top_price > position.entry_price

\* A step of the stop-loss block (sell) or of the signal check (buy): at most
\* PollAttempts polls; a changed position means a poll reported the order
\* filled; after a timeout the position is what it was.
CommitStep ==
    pc \in {"10s", "1m"}
    => /\ ev'.polls <= PollAttempts
       /\ position' # position
            => /\ ev'.result = "filled"
               /\ ev'.polls >= 1
               /\ \/ ev'.op = "buy" /\ position.market = "" /\ position'.market = ev'.market
                  \/ ev'.op = "sell" /\ position.market = ev'.market
                                     /\ position' = FlatPosition
       /\ ev'.result = "timeout"
            => (ev'.polls = PollAttempts /\ position' = position)

\* C5: buy() and sell() change the position (FLAT to HOLDING, HOLDING to FLAT)
\* only when a poll of the submitted order reports it filled; an order is
\* polled at most 10 times, and without a fill the position is what it was.
C5_CommitOnFill == [][CommitStep]_vars

\* C5, its case: a buy was committed on the last of the ten polls.
C5_Witness ==
    /\ ev.op = "buy"
    /\ ev.result = "filled"
    /\ ev.polls = PollAttempts
    /\ position.market = ev.market

\* C6: when the polling of a submitted order ends without a fill, the trader
\* logs a warning and sends a notification.
C6_TimeoutNotified ==
    ev.result = "timeout" => (ev.warned /\ ev.notes # {})

\* C7: the 10-second stop-loss block submits no sell order while an earlier
\* sell order for the same market is still waiting on the exchange.
C7_NoSellRetry ==
    (pc = "1m" /\ ev.op = "sell" /\ ev.submitted)
    => ~\E u \in WaitOrders(ex) :
           /\ u # ev.uuid
           /\ ex.orders[u].side = "ask"
           /\ ex.orders[u].market = ev.market

\* The position agrees with the account: HOLDING the first listed coin with a
\* positive balance, with its amount, and FLAT when there is none.
Agrees(pos, x) ==
    IF FirstHeld(x) = ""
    THEN pos = FlatPosition
    ELSE /\ pos.market = FirstHeld(x)
         /\ pos.amount = x.coins[FirstHeld(x)].balance

\* A check_position() that obtained the balances leaves the position in
\* agreement with the account.
ReconcileStep ==
    (/\ pc \in {"start", "5m_position"}
     /\ ev'.op = "check_position"
     /\ ev'.result \in {"entered", "updated", "priced", "exited", "flat"})
    => Agrees(position', ex')

\* C8: after every check_position() that obtained the balances, at start-up
\* and in the loop, the trader is HOLDING exactly when the account holds a coin
\* with a positive balance, with that holding's market and amount, and FLAT
\* otherwise, whatever it had tracked before.
C8_Reconciled == [][ReconcileStep]_vars

\* C8, its case: a reconciliation in the loop found the account changed (the
\* holding of the position gone, or another coin listed first) and replaced
\* what the trader had tracked.
C8_Witness ==
    /\ loop_count > 0
    /\ pc = "1h"
    /\ ev.op = "check_position"
    /\ ev.result \in {"entered", "exited"}
    /\ Agrees(position, ex)

\* C9: reconciliation runs in every iteration of the loop in which the
\* 10-second task fires.
C9_EveryShortTick ==
    (pc = "1h" /\ elapsed["10s"] = 0) => ev.op = "check_position"

\* C9, as the code has it: reconciliation runs at start-up and then in exactly
\* the iterations in which the 5-minute task fires.
C9_EveryLongTick ==
    /\ pc = "start_portfolio" => ev.op = "check_position"
    /\ pc = "1h" => (elapsed["5m"] = 0 <=> ev.op = "check_position")

\* C9, its case: an iteration in which the 10-second and the 1-minute tasks
\* fired and the 5-minute task did not, after one in which it did.
C9_Witness ==
    /\ pc = "1h"
    /\ loop_count > 1
    /\ elapsed["10s"] = 0
    /\ elapsed["1m"] = 0
    /\ elapsed["5m"] # 0
    /\ ev.op # "check_position"

\* C10: once the losses realized by the sells have reached max_daily_loss, the
\* signal check has no buy order accepted.
C10_NoBuyAtCap ==
    (pc = "1m_cancel" /\ ev.op = "buy" /\ ev.uuid # 0)
    => realized_loss < max_daily_loss


\* The requests to sell that the current strategy run has made.
SellRequests == {i \in 1..Len(kis.log) : kis.log[i].type = "sell"}

\* A sale of all of the position s, as check_stop_loss() saw it, was requested.
SellCommanded(s) ==
    \E i \in SellRequests :
        kis.log[i].symbol = s /\ kis.log[i].quantity = kis.items[s].quantity

\* The price of the position s is at least pct percent below its purchase price.
FallenBy(s, pct) ==
    (kis.items[s].current_price - kis.items[s].avg_price) * 100
        <= (0 - pct) * kis.items[s].avg_price

\* C11 as stated: every strategy run, domestic or overseas, that suppresses the
\* buys because daily_loss has reached max_daily_loss has executed the
\* stop-loss check before.
C11_CheckedInEveryRun ==
    "daily_loss_limit" \in kis.notes => kis.checked

\* C11: when a domestic strategy run has suppressed the buys because daily_loss
\* has reached max_daily_loss, it has executed the stop-loss check before, and
\* a sale has been requested for every position whose stop-loss condition held.
C11_StopLossBeforeLimit ==
    (kis.pc = "overseas" /\ "daily_loss_limit" \in kis.notes)
        => /\ kis.checked
           /\ \A s \in DOMAIN kis.items : FallenBy(s, stop_loss_percent) => SellCommanded(s)

\* The loss limit was already reached when the stop-loss sale of a position was
\* requested and accepted, and the run then suppressed the buys.
C11_Witness ==
    /\ kis.pc = "overseas"
    /\ "daily_loss_limit" \in kis.notes
    /\ \E i \in SellRequests :
          kis.log[i].accepted /\ kis.log[i].daily_loss >= max_daily_loss

C13_TrailingExit ==
    kis.checked
        => \A s \in DOMAIN kis.items : FallenBy(s, stop_loss_percent_high) => SellCommanded(s)

\* C14: every buy order is sized by the per-trade budget: what the Upbit trader
\* spends on a market buy is max_investment_per_trade for a strong signal and
\* half of it for a plain one.
C14_SizedByBudget ==
    \A u \in 1..Len(ex.orders) :
        ex.orders[u].side = "bid"
            => ex.orders[u].amount \in {max_investment_per_trade, max_investment_per_trade \div 2}

\* C15: the scheduling loop of run() never ends because a call made in a tick
\* raised a non-fatal error: the failure is caught, the tick's action is
\* abandoned, and the loop goes on.
C15_LoopSurvives == pc # "stopped"

\* C16: an error response with status 401 or 5xx ends the process, after a
\* final notification was handed to the delivery channel; any other error status
\* gives the caller an empty result and the process runs on.
C16_FatalExit ==
    api.status # 0
        => IF api.status >= 500 \/ api.status = 401
           THEN api.process = "exit1" /\ sent.kind = "fatal" /\ sent.posted
           ELSE api.process = "running" /\ api.result = "{}"

\* C17: with telegram configured, the shutdown message and the message of a
\* fatal error are handed to the delivery channel at every time of day.
C17_AlwaysAttempted ==
    (notifier.enabled /\ (sent.kind = "shutdown" \/ api.process = "exit1"))
        => sent.posted

\* C18: send_message() never raises; it returns true only when the channel
\* answered 200, and false for a disabled notifier, the quiet period, another
\* status and an exception of the request; the operation that notified goes on.
C18_NeverRaises ==
    sent.kind # "none"
        => /\ ~sent.raised
           /\ sent.ret <=> (sent.posted /\ sent.response = "200")
           /\ sent.kind = "trade" => api.process = "running"

\* A trading operation's message was posted, the request raised a network
\* error, and send_message() returned false.
C18_Witness ==
    /\ sent.kind = "trade"
    /\ sent.posted
    /\ sent.response = "RequestException"
    /\ ~sent.ret
    /\ ~sent.raised
    /\ api.process = "running"

\* the crossings between the previous and the current row
CrossUp(fast, slow) ==
    analysis.current[fast] > analysis.current[slow]
        /\ analysis.previous[fast] <= analysis.previous[slow]

CrossDown(fast, slow) ==
    analysis.current[fast] < analysis.current[slow]
        /\ analysis.previous[fast] >= analysis.previous[slow]

\* C19: buy is set exactly when the current RSI is below 30, or MACD crosses
\* above its signal line, or MA5 crosses above MA20; sell is set exactly when the
\* current RSI is above 70, or MACD crosses below its signal line, or MA5 crosses
\* below MA20.
C19_BuySellRules ==
    analysis.done
        => /\ analysis.signals.buy
                <=> \/ analysis.current.rsi < 30
                    \/ CrossUp("macd", "macd_signal")
                    \/ CrossUp("ma5", "ma20")
           /\ analysis.signals.sell
                <=> \/ analysis.current.rsi > 70
                    \/ CrossDown("macd", "macd_signal")
                    \/ CrossDown("ma5", "ma20")

\* Two rules answer differently for the same rows: the RSI says buy, the MACD
\* crossing says sell, and both flags are set.
C19_Witness ==
    /\ analysis.done
    /\ analysis.current.rsi < 30
    /\ CrossDown("macd", "macd_signal")
    /\ analysis.signals.buy
    /\ analysis.signals.sell

\* C20: strong_buy is set exactly when, in the current row, RSI < 30, MACD is
\* above its signal line and MA5 is above MA20; strong_sell exactly when RSI > 70,
\* MACD is below its signal line and MA5 is below MA20.
C20_StrongRules ==
    analysis.done
        => /\ analysis.signals.strong_buy
                <=> /\ analysis.current.rsi < 30
                    /\ analysis.current.macd > analysis.current.macd_signal
                    /\ analysis.current.ma5 > analysis.current.ma20
           /\ analysis.signals.strong_sell
                <=> /\ analysis.current.rsi > 70
                    /\ analysis.current.macd < analysis.current.macd_signal
                    /\ analysis.current.ma5 < analysis.current.ma20

\* strong_buy is set although nothing crossed: MACD and MA5 were above their
\* lines in the previous row already.
C20_Witness ==
    /\ analysis.done
    /\ analysis.signals.strong_buy
    /\ analysis.previous.macd > analysis.previous.macd_signal
    /\ analysis.previous.ma5 > analysis.previous.ma20

\* C21: whenever generate_signals returns strong_buy it also returns buy, and
\* whenever it returns strong_sell it also returns sell.
C21_StrongImpliesPlain ==
    analysis.done
        => /\ analysis.signals.strong_buy => analysis.signals.buy
           /\ analysis.signals.strong_sell => analysis.signals.sell

\* strong_sell is set where no line crossed downwards: sell comes from the RSI
\* rule alone.
C21_Witness ==
    /\ analysis.done
    /\ analysis.signals.strong_sell
    /\ analysis.signals.sell
    /\ ~CrossDown("macd", "macd_signal")
    /\ ~CrossDown("ma5", "ma20")

\* the rows of a table of n candles in which every indicator the signals read
\* is defined
FullyDefinedRows(n) ==
    {i \in 0..(n - 1) :
        LET row == indicator_row(i, [rsi |-> 31, macd |-> 1, macd_signal |-> 1,
                                     ma5 |-> 1, ma20 |-> 1])
        IN \A f \in DOMAIN row : row[f] # NaN}

\* C22: an evaluation whose candle set is empty or has fewer than two
\* fully-defined indicator rows sets neither buy nor sell, decides on no order,
\* and leaves the loop running.
C22_NoDecisionBeforeWarmUp ==
    (analysis.done /\ Cardinality(FullyDefinedRows(analysis.candles)) < 2)
        => /\ ~analysis.signals.buy
           /\ ~analysis.signals.sell
           /\ analysis.decision \in {"none", "skipped"}

\* C23, its second half: a sale requested for a symbol of which self.positions
\* has no entry is not carried out, so that neither a trade record is appended
\* nor daily_loss changed.
C23_ExitNeedsPosition ==
    \A i \in SellRequests : kis.log[i].accepted => kis.log[i].held

\* A call of sell_domestic_stock() whose order was accepted, for a position
\* quoted at its purchase price.
RoundTripExit ==
    /\ kis'.pc = "sold"
    /\ Len(kis'.log) = 1
    /\ kis'.log[1].accepted
    /\ kis'.log[1].held
    /\ LET p == kis.positions[kis'.log[1].symbol]
       IN p.current_price = p.avg_price

\* what the round trip leaves: one more trade record, with 0%, and daily_loss
\* as it was
RoundTripResult ==
    /\ Len(kis'.trade_history) = Len(kis.trade_history) + 1
    /\ kis'.trade_history[Len(kis'.trade_history)].type = "sell"
    /\ kis'.trade_history[Len(kis'.trade_history)].profit_percent = 0
    /\ kis'.daily_loss = kis.daily_loss

\* C24: exiting a position at the price it was entered at records a realized
\* profit of exactly 0% and leaves daily_loss unchanged.
C24_RoundTrip == [][RoundTripExit => RoundTripResult]_vars

\* A position was sold at its purchase price after a loss had been recorded
\* for another one; daily_loss still is that loss.
C24_Witness ==
    /\ kis.pc = "sold"
    /\ Len(kis.log) = 1
    /\ kis.log[1].accepted
    /\ Len(kis.trade_history) = 2
    /\ kis.trade_history[1].profit_percent < 0
    /\ kis.trade_history[2].profit_percent = 0
    /\ kis.daily_loss > 0
    /\ kis.daily_loss = kis.log[1].daily_loss

\* what a call of reset_daily_stats() does to the daily statistics
DailyResetStep ==
    IF kis.today > kis.last_reset_date
    THEN /\ kis'.daily_loss = 0
         /\ kis'.last_reset_date = kis.today
    ELSE /\ kis'.daily_loss = kis.daily_loss
         /\ kis'.last_reset_date = kis.last_reset_date

\* C25: reset_daily_stats sets daily_loss to 0 and the anchor date to today
\* exactly when today is later than the anchor date; otherwise, as in a second
\* call on the same day, it changes neither, whatever daily_loss has become;
\* the positions and the trade history are never touched.
C25_DailyReset ==
    [][kis'.pc = "reset"
         => /\ DailyResetStep
            /\ kis'.positions = kis.positions
            /\ kis'.trade_history = kis.trade_history]_vars

\* After midnight the statistics were reset, a loss was recorded, and a second
\* call on the same day has left the loss in place.
C25_Witness ==
    /\ kis.pc = "reset"
    /\ kis.today = 1
    /\ kis.last_reset_date = kis.today
    /\ kis.daily_loss > 0
    /\ Len(kis.trade_history) = 1

\* the account holds shares whose purchase price is 0
ZeroEntryHeld == \E s \in Held(kis.account) : kis.account[s].avg_price = 0

\* C26: with a holding whose entry price is 0, the computation of the profit
\* percentages does not fail by the division: an update of the positions that
\* raises has left self.positions as it was.
C26_ZeroEntryGuarded ==
    [][(ZeroEntryHeld /\ kis'.pc = "update_raised")
          => kis'.positions = kis.positions]_vars

\* What a step of run() does to the time since each task's last firing: a
\* reading of the clock lets it grow; the block of a task sets the task's own
\* time to 0, and has the task fire, exactly when it has reached the task's
\* interval; nothing else changes it.
TimerStep ==
    IF pc' = pc
    THEN elapsed' = elapsed
    ELSE IF pc = "top"
    THEN \A t \in Timers : elapsed'[t] >= elapsed[t] /\ elapsed'[t] > 0
    ELSE \A t \in Timers :
            elapsed'[t] = IF pc = t /\ elapsed[t] >= Interval[t] THEN 0 ELSE elapsed[t]

\* C27: each periodic task fires in an iteration exactly when the time since
\* its last firing, read at the iteration's top, has reached its interval, and
\* that time then restarts from the iteration's reading; so an iteration fires a
\* task at most once however late it is, and two firings of a task are at least
\* an interval apart.
C27_FiresWhenDue == [][TimerStep]_vars

\* An iteration an hour late fired each of the four tasks once, and the next
\* iteration, a second later, fired none.
C27_Witness ==
    /\ pc = "top"
    /\ loop_count = 2
    /\ \A t \in Timers : elapsed[t] = 1

\* The step of the 1-minute block, in an iteration whose 10-second task has
\* fired while the trader is flat: check_signal() runs.
SignalsOnShortTick ==
    (pc = "1m" /\ pc' # pc /\ elapsed["10s"] = 0 /\ position.market = "")
        => ev'.op \in {"check_signal", "buy"}

\* C28: on every 10-second tick the risk gate is re-checked when a position is
\* open, and the buy signals are re-evaluated when the trader is flat.
C28_EveryShortTick == [][SignalsOnShortTick]_vars

\* The step of the 10-second block: the stop-loss condition is asked exactly
\* when the task is due and a position is open.
GateStep ==
    (pc = "10s" /\ pc' # pc)
        => ((elapsed["10s"] >= Interval["10s"] /\ position.market # "")
              <=> (ev'.op \in {"stop_loss", "sell"} /\ ev'.market # ""))

\* The step of the 1-minute block: check_signal() goes on to the buy signals
\* exactly when the 1-minute task is due and the trader is flat.
SignalStep ==
    (pc = "1m" /\ pc' # pc)
        => ((elapsed["1m"] >= Interval["1m"] /\ position.market = "")
              <=> (ev'.op \in {"check_signal", "buy"} /\ ev'.result # "holding"))

\* C28, as the code has it: the risk gate is re-checked on every 10-second tick
\* with an open position; the buy signals are re-evaluated, when the trader is
\* flat, on the 1-minute ticks only.
C28_GateShortSignalsLong == [][GateStep /\ SignalStep]_vars

\* An iteration in which the 10-second task fired with the trader flat and the
\* 1-minute task did not: nothing but the empty stop-loss block has run.
C28_Witness ==
    /\ pc = "5m"
    /\ elapsed["10s"] = 0
    /\ elapsed["1m"] > 0
    /\ elapsed["1m"] < Interval["1m"]
    /\ position.market = ""
    /\ ev.op = "stop_loss"
    /\ ev.result = "flat"

\* the step in which the process ends
ShutdownStep ==
    (api.process = "running" /\ api'.process # "running")
        => /\ api'.process = "exit0"
           /\ sent'.kind = "shutdown"
           /\ notifier.enabled => sent'.posted
           /\ ex' = ex

\* C29: on a termination signal the process hands its final notification to
\* the delivery channel (when telegram is configured, at every time of day) and
\* exits, and no order is cancelled: the waiting orders stay on the exchange.
C29_ShutdownKeepsOrders ==
    [][/\ ShutdownStep
       /\ \A u \in DOMAIN ex'.orders : ex'.orders[u].state # "cancel"]_vars

\* The process has exited during the quiet period, its final notification was
\* posted, and a buy order is still waiting on the exchange.
C29_Witness ==
    /\ api.process = "exit0"
    /\ sent.kind = "shutdown"
    /\ sent.posted
    /\ sent.now = 1380
    /\ WaitOrders(ex) # {}

\* C30: for 20 closes rising by 1 from 100, with the RSI period 14, the RSI of
\* the last bar is 100.
C30_RisingSeries ==
    (analysis.done /\ analysis.close = [i \in 1..20 |-> 99 + i])
        => ~analysis.raised /\ analysis.rsi = 100

\* The RSI of that series was computed: every change of its last bars is a gain
\* and the average loss is zero.
C30_Witness ==
    /\ analysis.done
    /\ Len(analysis.close) = 20
    /\ \A i \in 1..19 : analysis.close[i + 1] = analysis.close[i] + 1
    /\ analysis.avg_gain > 0
    /\ analysis.avg_loss = 0
    /\ analysis.rsi = 100

\* C31: the RSI is undefined in every row below the RSI period and is first
\* defined in row period, from the simple means of the gains and losses of rows
\* 1..period; every later row uses Wilder smoothing.
C31_UndefinedBelowPeriod ==
    (analysis.done /\ ~analysis.raised)
        => /\ \A i \in 0..(rsi_period - 1) : analysis.column[i] = NaN
           /\ analysis.column[rsi_period]
                 = rsi_value(seed_sum(analysis.close, "gain", rsi_period),
                             seed_sum(analysis.close, "loss", rsi_period))
           /\ \A i \in (rsi_period + 1)..(Len(analysis.close) - 1) :
                 analysis.column[i]
                   = rsi_value(smoothed(analysis.close, "gain", i - 1) * (rsi_period - 1)
                                 + change(analysis.close, "gain", i)
                                     * rsi_period ^ (i - rsi_period),
                               smoothed(analysis.close, "loss", i - 1) * (rsi_period - 1)
                                 + change(analysis.close, "loss", i)
                                     * rsi_period ^ (i - rsi_period))

\* The markets check_signal() analyses, and those of them with a buy signal in
\* the call just made.
Candidates == SignalCandidates(top_volume_coins)

SignalHits == {i \in 1..Len(Candidates) : analysis'.sig[Candidates[i]]}

\* A call of check_signal(): with a position open nothing is requested and
\* nothing changes; with the trader flat at most one order is added, buy() is
\* called exactly when a candidate has a signal, and then for the first such
\* candidate only.
CheckSignalStep ==
    (analysis'.calls # analysis.calls /\ analysis'.call = "check_signal")
        => IF position.market # ""
           THEN /\ ev'.op = "check_signal"
                /\ ~ev'.submitted
                /\ ex' = ex
                /\ position' = position
           ELSE /\ Len(ex'.orders) <= Len(ex.orders) + 1
                /\ ev'.op = "buy"
                      => /\ SignalHits # {}
                         /\ ev'.market
                              = Candidates[CHOOSE i \in SignalHits : \A j \in SignalHits : i <= j]
                /\ (SignalHits # {} /\ ev'.result # "raise") => ev'.op = "buy"
                /\ ev'.op # "buy" => (ex' = ex /\ position' = position)

\* C32: check_signal() submits no buy order when a position is open, and when
\* the trader is flat it attempts a buy for at most one market per call: the
\* first of the top five volume markets whose analysis reports a buy signal.
C32_OneBuyForFirstSignal == [][CheckSignalStep]_vars

\* check_signal() was called with six ranked markets of which the fourth and
\* the fifth had a signal: the fourth was bought, and nothing else.
C32_Witness ==
    /\ analysis.call = "check_signal"
    /\ Len(top_volume_coins) = 6
    /\ analysis.sig["KRW-EEE"] /\ analysis.sig["KRW-BBB"]
    /\ top_volume_coins[4] = "KRW-EEE"
    /\ ev.op = "buy" /\ ev.result = "filled"
    /\ position.market = "KRW-EEE"
    /\ Len(ex.orders) = 1

\* check_signal() was called with a signal for the sixth market of the ranking
\* only: no buy was attempted.
C32_WitnessSixth ==
    /\ analysis.call = "check_signal"
    /\ Len(top_volume_coins) = 6
    /\ analysis.sig[top_volume_coins[6]]
    /\ ev.op = "check_signal" /\ ev.result = "no_signal"

\* A call of sell(market): an order is requested only for the market of the
\* open position and a positive amount; an order the exchange takes is an ask
\* for that market over the whole amount of the position; a call for another
\* market, or with no amount, requests nothing and changes nothing.
SellStep ==
    (analysis'.calls # analysis.calls /\ analysis'.call = "sell")
        => /\ ev'.op = "sell"
           /\ ev'.submitted => (position.market = ev'.market /\ position.amount > 0)
           /\ ev'.uuid # 0
                 => /\ ev'.submitted
                    /\ Len(ex'.orders) = Len(ex.orders) + 1
                    /\ ex'.orders[ev'.uuid].market = ev'.market
                    /\ ex'.orders[ev'.uuid].side = "ask"
                    /\ ex'.coins[ev'.market].balance
                         = ex.coins[ev'.market].balance - position.amount
           /\ ev'.uuid = 0 => ex' = ex
           /\ (position.market # ev'.market \/ position.amount <= 0)
                 => (~ev'.submitted /\ ex' = ex /\ position' = position)

\* C33: sell(market) submits a sell order only when the open position's market
\* equals the requested market and its held amount is positive, and the order
\* is for the full held amount; in every other case no order is submitted and
\* the position is unchanged.
C33_SellOwnPositionInFull == [][SellStep]_vars

\* sell() was called for the market of the open position: all of it was sold
\* and the trader is flat.
C33_Witness ==
    /\ analysis.call = "sell"
    /\ ev.op = "sell" /\ ev.result = "filled" /\ ev.market = "KRW-AAA"
    /\ position = FlatPosition
    /\ ex.coins["KRW-AAA"].balance = 0
    /\ ex.orders[ev.uuid].side = "ask"

\* sell() was called for another market than that of the open position.
C33_WitnessOtherMarket ==
    /\ analysis.call = "sell"
    /\ ev.op = "sell" /\ ev.result = "no_position"
    /\ position.market # "" /\ position.market # ev.market

\* C34: a strategy run never submits a buy order for a symbol that is already
\* held, so that repeated runs under a persistent buy signal do not keep adding
\* to the same holding, domestic and overseas alike.
C34_NoBuyOfHeldSymbol ==
    \A i \in 1..Len(kis.log) : kis.log[i].type = "buy" => ~kis.log[i].owned

\* A call of buy_domestic_stock() or sell_domestic_stock(): it returns True
\* exactly when the exchange accepted the order, a trade record is appended
\* exactly then, and a call that returns False has left trade_history and
\* daily_loss as they were.
OrderMethodStep ==
    kis'.pc \in {"bought", "sold"}
        => LET accepted == kis'.n_orders = kis.n_orders + 1
           IN /\ (kis'.ret = TRUE) <=> accepted
              /\ (Len(kis'.trade_history) = Len(kis.trade_history) + 1) <=> accepted
              /\ kis'.ret = FALSE
                    => /\ kis'.trade_history = kis.trade_history
                       /\ kis'.daily_loss = kis.daily_loss

\* C35: buy_domestic_stock() and sell_domestic_stock() return True exactly when
\* the exchange accepted the order, and a trade record is appended to
\* trade_history exactly in that case; a rejected order or an error returns
\* False and leaves trade_history and daily_loss unchanged.
C35_TrueIffAccepted == [][OrderMethodStep]_vars

\* The step of run() that calls cancel_abnormal_orders() in the 1-minute block.
\* When the exchange has listed its waiting orders, the cancellation of each of
\* them is requested; the notification is sent exactly when a cancellation
\* succeeded; and unless the exchange answered with a fatal status, run() goes
\* on with the 5-minute block.
CancelStep ==
    (pc = "1m_cancel" /\ pc' # pc)
        => /\ ev'.op = "cancel_abnormal_orders"
           /\ (ev'.result = "listed" \/ ev'.requested # {})
                 => ev'.requested = WaitOrders(ex)
           /\ ("orders_cancelled" \in ev'.notes) <=> (ev'.count > 0)
           /\ ev'.result # "fatal" => pc' = "5m"

\* C36: on each 1-minute tick cancel_abnormal_orders() requests the
\* cancellation of every order the exchange reports as waiting, once per order,
\* and sends a notification exactly when at least one cancellation succeeded;
\* an error while listing or cancelling does not terminate the loop.
C36_CancelsEveryWaitingOrder == [][CancelStep]_vars

\* A call of buy(market): unless it has seen its order filled, the position
\* record is as it was; with a position open, or with an allocation below the
\* minimum, no order is requested; a request the exchange refuses leaves no
\* order there.
BuyStep ==
    (analysis'.calls # analysis.calls /\ analysis'.call = "buy")
        => /\ ev'.op = "buy"
           /\ ev'.result # "filled" => position' = position
           /\ position.market # ""
                 => (ev'.result = "has_position" /\ ~ev'.submitted /\ ex' = ex)
           /\ (position.market = "" /\ buy_amount(ex.krw) < MinOrderKRW)
                 => (ev'.result \in {"insufficient", "error", "fatal"}
                     /\ ~ev'.submitted /\ ex' = ex)
           /\ ev'.result = "rejected" => (ev'.uuid = 0 /\ ex' = ex)
           /\ ev'.result \in {"error", "fatal", "timeout"}
                 => (ex' = ex \/ (ev'.uuid # 0 /\ ev'.uuid \in WaitOrders(ex')))

C37_WitnessBelowMinimum ==
    /\ analysis.call = "buy"
    /\ ev.op = "buy" /\ ev.result = "insufficient" /\ ~ev.submitted
    /\ ex.krw > 0 /\ buy_amount(ex.krw) < MinOrderKRW
    /\ position = FlatPosition

\* buy() was called with a position open and requested nothing.
C37_WitnessOpenPosition ==
    /\ analysis.call = "buy"
    /\ ev.op = "buy" /\ ev.result = "has_position" /\ ~ev.submitted
    /\ position.market # ""

\* C38: in every reachable state of the Upbit trader a FLAT position record
\* (empty market) has entry_price, amount and top_price all 0 and no
\* entry_time, and a HOLDING record has top_price greater than or equal to
\* entry_price.
C38_PositionRecordShape ==
    IF position.market = ""
    THEN /\ position.entry_price = 0
         /\ position.amount = 0
         /\ position.top_price = 0
         /\ position.entry_time = "None"
    ELSE /\ position.top_price >= position.entry_price
         /\ position.entry_time # "None"

\* A position bought by the trader whose high-water mark check_position() has
\* raised above the entry price.
C38_Witness ==
    /\ position.market # ""
    /\ position.entry_price > 0
    /\ position.top_price > position.entry_price
    /\ ev.op = "check_position" /\ ev.result = "priced"

\* The trader is flat again after its sale was filled.
C38_WitnessFlat ==
    /\ position = FlatPosition
    /\ ev.op = "sell" /\ ev.result = "filled"

\* What a step does to daily_loss: it is lowered only by reset_daily_stats() on
\* a later date than that of the last reset, and then to 0; it is raised only by
\* a sell the exchange accepted, of a symbol held in self.positions at a
\* negative profit percentage.
DailyLossStep ==
    /\ kis'.daily_loss < kis.daily_loss
          => /\ kis'.pc = "reset"
             /\ kis.today > kis.last_reset_date
             /\ kis'.daily_loss = 0
             /\ kis'.last_reset_date = kis.today
    /\ kis'.daily_loss > kis.daily_loss
          => /\ kis'.pc = "sold"
             /\ Len(kis'.trade_history) = Len(kis.trade_history) + 1
             /\ LET trade == kis'.trade_history[Len(kis'.trade_history)]
                IN /\ trade.type = "sell"
                   /\ trade.profit_percent < 0
                   /\ trade.symbol \in DOMAIN kis.positions
                   /\ kis.positions[trade.symbol].profit_percent < 0

\* C39: daily_loss is never negative, and between two daily resets it never
\* decreases: the only operation that lowers it is reset_daily_stats() on a
\* date change, and the only operation that raises it is a sell of a held
\* position whose profit percentage is negative.
C39_DailyLossMonotone == [][kis'.daily_loss >= 0 /\ DailyLossStep]_vars

\* Two positions were sold at a loss on the same day: daily_loss holds the sum
\* of the two losses.
C39_Witness ==
    /\ kis.pc = "sold"
    /\ Len(kis.trade_history) = 2
    /\ \A i \in 1..2 : /\ kis.trade_history[i].type = "sell"
                       /\ kis.trade_history[i].profit_percent < 0
    /\ kis.daily_loss = 1500 + 40 * 1500
    /\ kis.last_reset_date = kis.today

\* C40: if a held position's stop-loss condition stays true and the exchange
\* accepts and fills every sell order it receives, then under a fair scheduler
\* the trader eventually submits a sell for that position and becomes FLAT,
\* for every position the reconciliation can produce, one with entry price 0
\* included.
C40_StopLossLeadsToFlat ==
    (position.market # "" /\ check_stop_loss_condition(position, StopPrice))
        ~> (position = FlatPosition)

====
